---- MODULE Spec2Model ----
(***************************************************************************)
(* Local data layer of the negative-visualization journal: the Dexie       *)
(* tables (settings, prompts, entries, streakSummary), the streak engine,  *)
(* the daily prompt scheduler with its once-per-day swap, and the PIN      *)
(* session lock kept by PinProvider.                                       *)
(*                                                                         *)
(* Time is the value of Date.now() in minutes.  Calendar dates (the        *)
(* YYYY-MM-DD strings of the source) are day numbers: the formatting is    *)
(* injective and the code only compares dates for equality.                *)
(***************************************************************************)
EXTENDS Integers, Sequences, FiniteSets, TLC

\* ------------------------------------------------------------------ bounds
\* last instant (minutes after the first launch) the calendar clock is
\* advanced to
MaxNow == 2640
\* last instant (minutes after the first launch) the clock of the prompt
\* scheduler is
\* advanced to
MaxPromptNow == 1440
\* number of entry rows that may be created
MaxEntries == 2
\* last instant (minutes after the first launch) the minute clock is
\* advanced to
MaxPinNow == 7
\* last instant (minutes after the first launch) the minute clock is
\* advanced to while two tabs are open
MaxPinTabsNow == 2
\* last instant (minutes after the first launch) the minute clock is
\* advanced to while the PIN context is called directly
MaxPinContextNow == 2
\* current_streak beyond which no further entry is saved
MaxStreak == 3
\* events in the telemetry queue when a call that may push one starts
MaxQueue == 2
\* calls of the telemetry service in flight at one time
MaxCalls == 2
\* calls of the telemetry service a page starts await by await
MaxStarted == 3
\* days after the first launch the clock of the daily completions is
\* advanced to
MaxTelemetryDays == 15
\* last instant (minutes after the first launch) the clock of the telemetry
\* service is advanced to
MaxTelemetryNow == 1440
\* the last instant of the clock while seed prompts are initialised
MaxSeedNow == 1440
\* the last instant of the clock while data is exported
MaxExportNow == 1440
\* last instant (minutes after the first launch) the minute clock is
\* advanced to while the page is away
MaxStartupNow == 7
\* the last instant of the clock while two tabs save
MaxRaceNow == 1440
\* the last instant of the clock while the streak is reset
MaxResetNow == 2880
\* the largest streak count of a summary row found damaged in the store
MaxDamagedCount == 2

\* ------------------------------------------------------- program constants
MinutesPerDay == 1440
MAX_ATTEMPTS == 5
MAX_RETRY_ATTEMPTS == 5
\* RETRY_DELAYS of TelemetryService, in milliseconds
RETRY_DELAYS == <<1000, 2000, 5000, 10000, 30000>>
LOCKOUT_DURATION == 5
PBKDF2_ITERATIONS == 100000
DefaultLockTimeout == 5
SeedCount == 10
LcgA == 1664525
LcgC == 1013904223
\* the modulus m = 2^32 of the generator is Half * Half
Half == 65536

\* ------------------------------------------------------------ environment
\* Date.now() of the first instant considered (a UTC midnight)
T0 == 14400
\* values of Date.prototype.getTimezoneOffset(): UTC+2, UTC, UTC-5
TzOffsets == {-120, 0, 300}
\* local times of day (minutes) at which the application is used
DailyInstants == {120, 1320}
\* local time of day (minutes) of the first launch
FirstLaunchLocalMinute == 120

\* values typed into the auto-lock timeout field
LockTimeouts == {2}
\* the clear() of the wipe transaction that throws (0: none does)
WipeFailures == {0, 3}
\* 'BroadcastChannel' in window
ChannelSupport == {TRUE, FALSE}
\* values of Math.random(), in tenths
RandomTenths == {0, 9}

NoDate == -1
NoId == <<>>
NoHash == <<>>
NoAnonId == 0

VARIABLES
  now,            \* Date.now(), minutes
  tzOffset,       \* getTimezoneOffset() of the device
  settings,       \* table settings: set of rows (at most the row 'main')
  prompts,        \* table prompts: rows in primary-key order
  entries,        \* table entries: set of rows
  streakSummary,  \* table streakSummary: set of rows (at most 'main')
  nextEntryId,    \* number of entry ids handed out so far
  appSettings,    \* useAppStore.settings (in memory)
  todayEntry,     \* useAppStore.todayEntry (in memory)
  otherTab,       \* a second tab: its todayEntry and its PinProvider state
  canSwap,        \* TodayCard state canSwap
  isFirstLaunch,  \* useAppStore.isFirstLaunch (persisted under negviz-app-store)
  currentView,    \* useAppStore.currentView (persisted under negviz-app-store)
  isLocked,       \* PinProvider state
  attemptCount,   \* PinProvider state
  isTemporaryLocked, \* PinProvider state
  lockoutEndTime, \* PinProvider state (NoDate when null)
  lsPinAttempts,  \* localStorage nvj_pinAttempts (NoDate when absent)
  lsPinLockoutEnd,\* localStorage nvj_pinLockoutEnd (NoDate when absent)
  lsLastActivity, \* localStorage nvj_lastActivity (NoDate when absent)
  lsSessionLocked,\* localStorage nvj_sessionLocked = 'true'
  lsAppStore,     \* localStorage holds the key negviz-app-store
  lockTimerAt,    \* instant the inactivity timer of initActivityTracking fires
  telemetryService, \* the TelemetryService instance: eventQueue, processingQueue
  lsTelemetryQueue, \* localStorage nvj_telemetry_queue (<<>> when absent)
  calls,          \* the asynchronous telemetry calls in flight
  ret,            \* the last operation and what it returned
  hist            \* history of the run, read by the properties only

vars == <<now, tzOffset, settings, prompts, entries, streakSummary,
          nextEntryId, appSettings, todayEntry, otherTab, canSwap,
          isFirstLaunch, currentView,
          isLocked,
          attemptCount, isTemporaryLocked, lockoutEndTime, lsPinAttempts,
          lsPinLockoutEnd, lsLastActivity, lsSessionLocked, lsAppStore,
          lockTimerAt, telemetryService, lsTelemetryQueue, calls, ret, hist>>

telVars == <<telemetryService, lsTelemetryQueue, calls>>
dbVars == <<settings, prompts, entries, streakSummary, nextEntryId>>
pinVars == <<isLocked, attemptCount, isTemporaryLocked, lockoutEndTime,
             lsPinAttempts, lsPinLockoutEnd, lsLastActivity, lsSessionLocked,
             lockTimerAt>>

\* ------------------------------------------------------------------ dates
\* the calendar day the local getters (getFullYear/getMonth/getDate) give
\* for the instant t
LocalDay(t) == (t - tzOffset) \div MinutesPerDay

\* Date.now() at the first launch
FirstLaunch == T0 + FirstLaunchLocalMinute + tzOffset

\* dbUtils.getTodayLocal: the instant is first shifted by the timezone
\* offset and then read with the local getters
getTodayLocal == LocalDay(now - tzOffset)

\* promptUtils.getTodayString
getTodayString == LocalDay(now)

\* the yesterdayLocal of dbUtils.updateStreak
yesterdayLocal == LocalDay(now) - 1

\* minutes from now to the next instant of use, and to the same time tomorrow
ClockSteps ==
  LET m == (now - tzOffset) % MinutesPerDay
      waits == {((i - m + MinutesPerDay - 1) % MinutesPerDay) + 1 :
                  i \in DailyInstants}
  IN  {CHOOSE w \in waits : \A x \in waits : w <= x, MinutesPerDay}

\* ------------------------------------------------------------------ rows
Max(a, b) == IF a >= b THEN a ELSE b
Min(a, b) == IF a <= b THEN a ELSE b

\* db.<singleton table>.get('main')
GetMain(table) == CHOOSE r \in table : TRUE

Ret(op, ok, err) ==
  [op |-> op, ok |-> ok, err |-> err, isFirstToday |-> FALSE,
   updated |-> FALSE, created |-> FALSE, prompt |-> NoId, pin |-> <<>>,
   channel |-> TRUE, json |-> {}, enqueued |-> <<>>,
   call |-> "", sent |-> <<>>, retry |-> <<>>, threw |-> FALSE,
   snapshot |-> <<>>,
   validation |-> [isValid |-> FALSE, recovered |-> FALSE, wrote |-> FALSE]]

\* the Settings row dbUtils.initializeSettings writes on first launch
NewSettings ==
  [pinHash |-> NoHash, pinSalt |-> 0, pinIterations |-> 0,
   lockTimeoutMinutes |-> DefaultLockTimeout, dailyCueEnabled |-> FALSE,
   telemetryOptIn |-> FALSE, telemetryAnonId |-> NoAnonId,
   telemetryActivationSent |-> FALSE, telemetryConsecutiveDays |-> 0,
   telemetryLastCompletionDate |-> NoDate, telemetryD7EventSent |-> FALSE,
   swapUsedDate |-> NoDate, lastPromptDate |-> NoDate, lastPromptId |-> NoId,
   installAt |-> now]

\* dbUtils.initializeSettings: the settings table after the call
initializeSettings(table) == IF table # {} THEN table ELSE {NewSettings}

\* ----------------------------------------------------------------- crypto
\* PINs a user may type: two well-formed ones and one that is too short
PinInputs == {<<1, 2, 3, 4>>, <<0, 0, 0, 0>>, <<1, 2, 3>>}
\* the PIN the user chooses
UserPin == <<1, 2, 3, 4>>
\* values crypto.getRandomValues may give the salt
Salts == {1}

\* cryptoUtils.isValidPin
isValidPin(pin) == Len(pin) = 4 /\ \A i \in 1..Len(pin) : pin[i] \in 0..9

\* PBKDF2-SHA256 of the PIN: a function of (pin, salt, iterations) that is
\* injective on the inputs considered
Pbkdf2(pin, salt, iterations) == <<"pbkdf2", pin, salt, iterations>>

\* cryptoUtils.hashPin
hashPin(pin, salt) ==
  [salt |-> salt, iterations |-> PBKDF2_ITERATIONS,
   hash |-> Pbkdf2(pin, salt, PBKDF2_ITERATIONS)]

\* cryptoUtils.constantTimeEquals
constantTimeEquals(a, b) ==
  IF Len(a) # Len(b) THEN FALSE ELSE \A i \in 1..Len(a) : a[i] = b[i]

\* cryptoUtils.verifyPin
cryptoVerifyPin(pin, hashData) ==
  constantTimeEquals(Pbkdf2(pin, hashData.salt, hashData.iterations),
                     hashData.hash)

\* --------------------------------------------------------- prompt scheduler
\* the order in which db.prompts.toArray() lists the seed rows: ascending
\* primary key, the keys being the strings seed-1, seed-10, seed-2, ...
PromptKeyOrder == <<1, 10, 2, 3, 4, 5, 6, 7, 8, 9>>

SeedId(n) == <<"seed", n>>

\* the rows promptUtils.initializeSeedPrompts adds, as toArray() lists them
SeedRows ==
  [i \in 1..SeedCount |->
     [id |-> SeedId(PromptKeyOrder[i]), archived |-> FALSE, source |-> "seed"]]

IsActiveSeed(p) == p.source = "seed" /\ ~p.archived

\* promptUtils.pseudoRandom: (a * seed + c) % 2^32, computed on 16-bit halves
\* and returned as the halves <<high, low>> of the 32-bit result
pseudoRandom(seed) ==
  LET low == (LcgA % Half) * seed + (LcgC % Half)
      high == (LcgA \div Half) * seed + (LcgC \div Half) + (low \div Half)
  IN  <<high % Half, low % Half>>

\* r % n for a 32-bit r given by its halves
ModOf(r, n) == ((r[1] % n) * (Half % n) + (r[2] % n)) % n

daysSinceInstall(installDate) == (now - installDate) \div MinutesPerDay

\* promptUtils.getTodayPrompt throws when no active seed prompt exists
TodayPromptThrows(rows) == SelectSeq(rows, IsActiveSeed) = <<>>

\* promptUtils.getTodayPrompt
getTodayPrompt(installDate, rows) ==
  LET seedPrompts == SelectSeq(rows, IsActiveSeed)
      index == ModOf(pseudoRandom(daysSinceInstall(installDate)), Len(seedPrompts))
  IN  seedPrompts[index + 1]

\* getSwapPrompt that does not exclude the last prompt
getSwapPromptAnyLast(currentPromptId, lastPromptId, rows, rnd) ==
  LET Alt(p) == IsActiveSeed(p) /\ p.id # currentPromptId
      seedPrompts == SelectSeq(rows, Alt)
      randomIndex == (rnd * Len(seedPrompts)) \div 10
  IN  IF seedPrompts = <<>>
      THEN rows[CHOOSE i \in 1..Len(rows) : rows[i].id = currentPromptId]
      ELSE seedPrompts[randomIndex + 1]

\* promptUtils.getSwapPrompt, Math.random() returning rnd tenths
getSwapPrompt(currentPromptId, lastPromptId, rows, rnd) ==
  LET Alt(p) == /\ IsActiveSeed(p)
                /\ p.id # currentPromptId
                /\ p.id # lastPromptId
      seedPrompts == SelectSeq(rows, Alt)
      randomIndex == (rnd * Len(seedPrompts)) \div 10
  IN  IF seedPrompts = <<>>
      THEN rows[CHOOSE i \in 1..Len(rows) : rows[i].id = currentPromptId]
      ELSE seedPrompts[randomIndex + 1]

\* promptUtils.canSwapToday
canSwapToday(swapUsedDate) == swapUsedDate # getTodayString

\* promptUtils.getFallbackPrompt
getFallbackPrompt(installDate) ==
  LET index == ModOf(pseudoRandom(daysSinceInstall(installDate)), SeedCount)
  IN  [id |-> SeedId(index + 1), archived |-> FALSE, source |-> "seed"]

\* promptUtils.getCurrentPrompt
getCurrentPrompt(installDate, st, rows) ==
  LET s == GetMain(st)
      found == {i \in 1..Len(rows) : st # {} /\ rows[i].id = s.lastPromptId}
  IN  IF /\ st # {}
         /\ s.swapUsedDate = getTodayString
         /\ s.lastPromptId # NoId
         /\ found # {}
      THEN rows[CHOOSE i \in found : TRUE]
      ELSE IF TodayPromptThrows(rows)
           THEN getFallbackPrompt(installDate)
           ELSE getTodayPrompt(installDate, rows)

\* promptUtils.swapTodayPrompt: what it returns and the settings table it
\* leaves
swapTodayPrompt(installDate, rnd) ==
  LET st == GetMain(settings)
      fail(e) == [ok |-> FALSE, err |-> e, prompt |-> NoId,
                  settings |-> settings]
      currentPrompt == getTodayPrompt(installDate, prompts)
      newPrompt == getSwapPrompt(currentPrompt.id, st.lastPromptId, prompts,
                                 rnd)
  IN  IF settings = {} THEN fail("settingsNotFound")
      ELSE IF ~canSwapToday(st.swapUsedDate) THEN fail("oncePerDay")
      ELSE IF TodayPromptThrows(prompts) THEN fail("failedToSwap")
      ELSE IF newPrompt.id = currentPrompt.id THEN fail("noAlternative")
      ELSE [ok |-> TRUE, err |-> "", prompt |-> newPrompt.id,
            settings |-> {[st EXCEPT !.swapUsedDate = getTodayString,
                                     !.lastPromptDate = getTodayString,
                                     !.lastPromptId = newPrompt.id]}]

\* promptUtils.initializeSeedPrompts: the prompts table after the call
initializeSeedPrompts(rows) ==
  IF SelectSeq(rows, LAMBDA p : p.source = "seed") # <<>> THEN rows ELSE SeedRows

\* a bulkAdd that does not reject a row whose key the table holds
bulkAddAnyKey(table, rows) == table \o rows

\* db.prompts.bulkAdd(rows): a row whose id the table holds is rejected, id
\* being the unique primary key, and the others are added; the table as
\* toArray() lists it
bulkAdd(table, rows) ==
  LET held == {table[i].id : i \in DOMAIN table}
      all == {table[i] : i \in DOMAIN table}
               \cup {rows[i] : i \in {j \in DOMAIN rows : rows[j].id \notin held}}
      keys == SelectSeq([k \in 1..SeedCount |-> SeedId(PromptKeyOrder[k])],
                        LAMBDA id : \E r \in all : r.id = id)
  IN  [k \in DOMAIN keys |-> CHOOSE r \in all : r.id = keys[k]]

\* db.prompts.where('source').equals('seed').count()
existingSeeds(table) == Len(SelectSeq(table, LAMBDA p : p.source = "seed"))

\* ----------------------------------------------------------- streak engine
\* dbUtils.initializeStreakSummary: the streakSummary table after the call
initializeStreakSummary(table) ==
  IF table # {} THEN table
  ELSE {[current_streak |-> 0, longest_streak |-> 0,
         last_entry_date |-> NoDate]}

\* the corruption test of dbUtils.validateAndRecoverStreakData
IsCorrupted(streak) ==
  \/ streak.current_streak < 0
  \/ streak.longest_streak < 0
  \/ streak.current_streak > streak.longest_streak

\* validateAndRecoverStreakData repairing longest_streak without looking at
\* the current_streak it read
validateAndRecoverKeepsLongest(table) ==
  IF table = {} THEN initializeStreakSummary(table)
  ELSE LET streak == GetMain(table)
       IN  IF IsCorrupted(streak)
           THEN {[current_streak |->
                    Max(0, Min(streak.current_streak, streak.longest_streak)),
                  longest_streak |-> Max(0, streak.longest_streak),
                  last_entry_date |-> streak.last_entry_date]}
           ELSE table

\* dbUtils.validateAndRecoverStreakData: the streakSummary table after the call
validateAndRecoverStreakData(table) ==
  IF table = {} THEN initializeStreakSummary(table)
  ELSE LET streak == GetMain(table)
       IN  IF IsCorrupted(streak)
           THEN {[current_streak |->
                    Max(0, Min(streak.current_streak, streak.longest_streak)),
                  longest_streak |->
                    Max(Max(0, streak.longest_streak), streak.current_streak),
                  last_entry_date |-> streak.last_entry_date]}
           ELSE table

\* what dbUtils.validateAndRecoverStreakData returns for the table it reads,
\* and whether it has written the row
validationResult(table) ==
  IF table = {}
  THEN [isValid |-> FALSE, recovered |-> TRUE, wrote |-> TRUE]
  ELSE IF IsCorrupted(GetMain(table))
  THEN [isValid |-> FALSE, recovered |-> TRUE, wrote |-> TRUE]
  ELSE [isValid |-> TRUE, recovered |-> FALSE, wrote |-> FALSE]

\* AdvanceStreak without the Math.max on longest_streak
AdvanceStreakNoMax(streak, entryDate) ==
  IF streak.last_entry_date = NoDate
  THEN [streak EXCEPT !.current_streak = 1, !.longest_streak = 1]
  ELSE IF streak.last_entry_date = yesterdayLocal
  THEN [streak EXCEPT !.current_streak = @ + 1]
  ELSE IF streak.last_entry_date # entryDate
  THEN [streak EXCEPT !.current_streak = 1]
  ELSE streak

\* the branch of dbUtils.updateStreak taken for the first entry of the date
AdvanceStreak(streak, entryDate) ==
  IF streak.last_entry_date = NoDate
  THEN [streak EXCEPT !.current_streak = 1, !.longest_streak = 1]
  ELSE IF streak.last_entry_date = yesterdayLocal
  THEN [streak EXCEPT !.current_streak = @ + 1,
                      !.longest_streak = Max(@, streak.current_streak + 1)]
  ELSE IF streak.last_entry_date # entryDate
  THEN [streak EXCEPT !.current_streak = 1]
  ELSE streak

\* updateStreak taking any entry of the date for the first one
updateStreakAnyCount(entryDate, ents, table) ==
  LET streak == GetMain(initializeStreakSummary(table))
      existingEntryToday == Cardinality({e \in ents : e.dateLocal = entryDate})
      isFirstToday == existingEntryToday >= 1
      newStreak == [AdvanceStreak(streak, entryDate)
                      EXCEPT !.last_entry_date = entryDate]
  IN  IF ~isFirstToday
      THEN [table |-> {streak}, updated |-> FALSE, isFirstToday |-> FALSE,
            streakData |-> streak]
      ELSE [table |-> {newStreak}, updated |-> TRUE, isFirstToday |-> TRUE,
            streakData |-> newStreak]

\* updateStreak starting the summary over after a gap, without the date of
\* the entry
updateStreakGapStartsOver(entryDate, ents, table) ==
  LET streak == GetMain(initializeStreakSummary(table))
      existingEntryToday == Cardinality({e \in ents : e.dateLocal = entryDate})
      isFirstToday == existingEntryToday = 1
      gap == /\ streak.last_entry_date # NoDate
             /\ streak.last_entry_date # yesterdayLocal
             /\ streak.last_entry_date # entryDate
      newStreak == [AdvanceStreak(streak, entryDate)
                      EXCEPT !.last_entry_date = IF gap THEN NoDate
                                                 ELSE entryDate]
  IN  IF ~isFirstToday
      THEN [table |-> {streak}, updated |-> FALSE, isFirstToday |-> FALSE,
            streakData |-> streak]
      ELSE [table |-> {newStreak}, updated |-> TRUE, isFirstToday |-> TRUE,
            streakData |-> newStreak]

\* dbUtils.updateStreak, given the entries and the streakSummary table it
\* reads: the table it leaves and the result it returns
updateStreak(entryDate, ents, table) ==
  LET streak == GetMain(initializeStreakSummary(table))
      existingEntryToday == Cardinality({e \in ents : e.dateLocal = entryDate})
      isFirstToday == existingEntryToday = 1
      newStreak == [AdvanceStreak(streak, entryDate)
                      EXCEPT !.last_entry_date = entryDate]
  IN  IF ~isFirstToday
      THEN [table |-> {streak}, updated |-> FALSE, isFirstToday |-> FALSE,
            streakData |-> streak]
      ELSE [table |-> {newStreak}, updated |-> TRUE, isFirstToday |-> TRUE,
            streakData |-> newStreak]

\* the lastPromptId dbUtils.resetStreakData writes as a backup of the row
StreakBackup(streak) == <<"backup_streak">>

\* ------------------------------------------------------------ session lock
\* sessionUtils.shouldLock, given the stored nvj_lastActivity
shouldLock(timeoutMinutes, lastActivity) ==
  IF lastActivity = NoDate THEN TRUE
  ELSE (now - lastActivity) > timeoutMinutes

\* settings?.lockTimeoutMinutes || 5
TimeoutOf(st) ==
  IF st = {} \/ GetMain(st).lockTimeoutMinutes = 0 THEN DefaultLockTimeout
  ELSE GetMain(st).lockTimeoutMinutes

\* !!(settings?.pinHash)
HasPinHash(st) == st # {} /\ GetMain(st).pinHash # NoHash

\* PinContextValue.isPinEnabled
IsPinEnabled(st) ==
  /\ st # {}
  /\ GetMain(st).pinHash # NoHash
  /\ GetMain(st).pinSalt # 0
  /\ GetMain(st).pinIterations # 0

\* the auto-lock effect of PinProvider, run for the store settings st:
\* initActivityTracking restarts the inactivity timer, then the startup check
AutoLockEffect(st, locked, sessionLocked) ==
  IF ~HasPinHash(st)
  THEN [isLocked |-> locked, lsLastActivity |-> lsLastActivity,
        lockTimerAt |-> NoDate]
  ELSE [isLocked |-> locked \/ shouldLock(TimeoutOf(st), now) \/ sessionLocked,
        lsLastActivity |-> now,
        lockTimerAt |-> now + TimeoutOf(st)]

\* the effect runs again only when one of its dependencies changed
AutoLockDepsChanged(old, new) ==
  \/ HasPinHash(old) # HasPinHash(new)
  \/ (HasPinHash(old) /\ GetMain(old).pinHash # GetMain(new).pinHash)
  \/ (old = {}) # (new = {})
  \/ (old # {} /\ new # {}
        /\ GetMain(old).lockTimeoutMinutes # GetMain(new).lockTimeoutMinutes)

\* PinProvider.initializePinState, from the two localStorage keys
initializePinState ==
  LET active == lsPinLockoutEnd # NoDate /\ now < lsPinLockoutEnd
      expired == lsPinLockoutEnd # NoDate /\ ~(now < lsPinLockoutEnd)
      attempts == IF expired THEN NoDate ELSE lsPinAttempts
  IN  [isTemporaryLocked |-> active,
       lockoutEndTime |-> IF active THEN lsPinLockoutEnd ELSE NoDate,
       attemptCount |-> IF attempts # NoDate THEN attempts
                        ELSE IF active THEN MAX_ATTEMPTS ELSE 0,
       lsPinAttempts |-> attempts,
       lsPinLockoutEnd |-> IF expired THEN NoDate ELSE lsPinLockoutEnd]

\* the document listeners of sessionUtils.initActivityTracking: a user
\* gesture restarts the inactivity timer while the tracking is installed
UserActivity ==
  /\ lsLastActivity' = IF HasPinHash(appSettings) THEN now ELSE lsLastActivity
  /\ lockTimerAt' = IF HasPinHash(appSettings)
                    THEN now + TimeoutOf(appSettings) ELSE NoDate
  /\ UNCHANGED <<isLocked, attemptCount, isTemporaryLocked, lockoutEndTime,
                 lsPinAttempts, lsPinLockoutEnd, lsSessionLocked>>

\* AppGuard shows the application (not the onboarding, not the lock screen)
AppVisible ==
  /\ ~isFirstLaunch
  /\ appSettings # {}
  /\ ~(IsPinEnabled(appSettings) /\ isLocked)

\* ------------------------------------------------------------------ views
Views == {"today", "journal", "last7days", "settings"}

\* db.entries.where('dateLocal').equals(today).first()
FirstEntryOf(ents, date) ==
  LET m == {e \in ents : e.dateLocal = date}
  IN  IF m = {} THEN {} ELSE {CHOOSE e \in m : \A f \in m : e.id <= f.id}

\* settings?.installAt || new Date().toISOString()
InstallDateOf(store) == IF store = {} THEN now ELSE GetMain(store).installAt

\* what mounting the component of view v does: loadTodayData of TodayCard,
\* loadTodayPrompt of PromptEntry; store is useAppStore.settings, st the
\* settings table
Mounted(v, rows, streakTable, te, ents, store, st) ==
  [prompts |-> IF v \in {"today", "journal"} THEN initializeSeedPrompts(rows)
               ELSE rows,
   prompt |-> IF v \in {"today", "journal"}
              THEN getCurrentPrompt(InstallDateOf(store), st,
                                    initializeSeedPrompts(rows)).id
              ELSE NoId,
   canSwap |-> IF v = "today"
               THEN (st = {} \/ canSwapToday(GetMain(st).swapUsedDate))
               ELSE TRUE,
   streakSummary |-> IF v = "today"
                     THEN validateAndRecoverStreakData(streakTable)
                     ELSE streakTable,
   validation |-> IF v = "today" THEN validationResult(streakTable)
                  ELSE Ret("", TRUE, "").validation,
   todayEntry |-> IF v = "journal" /\ FirstEntryOf(ents, getTodayLocal) # {}
                  THEN FirstEntryOf(ents, getTodayLocal)
                  ELSE te]

\* --------------------------------------------------------------- telemetry
\* the UTC day new Date().toISOString().split('T')[0] names at the instant t
UtcDay(t) == t \div MinutesPerDay

\* TelemetryService.getTelemetrySettings of the settings table: {} for null
getTelemetrySettings(table) ==
  {[isOptedIn |-> r.telemetryOptIn, anonId |-> r.telemetryAnonId,
    activationSent |-> r.telemetryActivationSent,
    consecutiveDays |-> r.telemetryConsecutiveDays,
    lastCompletionDate |-> r.telemetryLastCompletionDate,
    d7EventSent |-> r.telemetryD7EventSent] : r \in table}

\* a Partial<TelemetrySettings>: given holds the properties the caller
\* wrote; an anonId of NoAnonId and a lastCompletionDate of NoDate are the
\* value undefined
NoUpdates ==
  [given |-> {}, isOptedIn |-> FALSE, anonId |-> NoAnonId,
   activationSent |-> FALSE, consecutiveDays |-> 0,
   lastCompletionDate |-> NoDate, d7EventSent |-> FALSE]

\* updates.<p> ?? settings.<p>
Coalesce(isGiven, isUndefined, a, b) ==
  IF isGiven /\ ~isUndefined THEN a ELSE b

\* updatedSettings of updateTelemetrySettings for the row it read
updatedTelemetrySettings(row, u) ==
  [row EXCEPT
     !.telemetryOptIn = Coalesce("isOptedIn" \in u.given, FALSE,
                                 u.isOptedIn, @),
     !.telemetryAnonId = Coalesce("anonId" \in u.given, u.anonId = NoAnonId,
                                  u.anonId, @),
     !.telemetryActivationSent = Coalesce("activationSent" \in u.given, FALSE,
                                          u.activationSent, @),
     !.telemetryConsecutiveDays = Coalesce("consecutiveDays" \in u.given,
                                           FALSE, u.consecutiveDays, @),
     !.telemetryLastCompletionDate =
        Coalesce("lastCompletionDate" \in u.given,
                 u.lastCompletionDate = NoDate, u.lastCompletionDate, @),
     !.telemetryD7EventSent = Coalesce("d7EventSent" \in u.given, FALSE,
                                       u.d7EventSent, @)]

\* the elements of a queue
Range(q) == {q[i] : i \in DOMAIN q}

\* the smallest positive number that is not in used
FreshIn(used) ==
  CHOOSE i \in 1..(Cardinality(used) + 1) :
    i \notin used /\ \A j \in 1..(i - 1) : j \in used

\* a call of the service in flight: the await it is suspended at (pc), the
\* continuations of its callers (cont) and its local variables
Frame(op, pc) ==
  [op |-> op, pc |-> pc, cont |-> <<>>, ts |-> {}, anon |-> NoAnonId,
   ev |-> "", upd |-> NoUpdates, row |-> {}, today |-> NoDate, n |-> 0]

\* no drain is running
IdleDrain == [pc |-> "idle", events |-> <<>>, i |-> 0]

\* what the calls of the service read and write: the settings table, the
\* fields of the service, the persisted queue, the drain in progress, the
\* event types pushed so far (enq) and the delays of the retries scheduled
\* with setTimeout so far (retry); fault is what goes wrong in the calls: "db"
\* when the requests to the settings table are rejected, "push" when
\* this.eventQueue.push throws; threw holds when a call has ended with an
\* exception
Machine(table, service, ls, drain) ==
  [settings |-> table, eventQueue |-> service.eventQueue,
   processingQueue |-> service.processingQueue, ls |-> ls, drain |-> drain,
   enq |-> <<>>, retry |-> <<>>, fault |-> "", threw |-> FALSE]

\* what can go wrong in a call of the service
TelemetryFaults == {"", "db", "push"}

\* generateAnonId: 'anon_' + Date.now() + random, an id nothing holds yet
generateAnonId(f, m) ==
  FreshIn({r.telemetryAnonId : r \in m.settings \cup appSettings}
          \cup {e.anonId : e \in Range(m.eventQueue) \cup Range(m.ls)
                                  \cup Range(m.drain.events)}
          \cup {f.anon} \cup {c.anon : c \in Range(calls.api)})

\* the id of createEvent: 'evt_' + Date.now() + random, an id no event in a
\* queue holds
NewEventId(m) ==
  FreshIn({e.id : e \in Range(m.eventQueue) \cup Range(m.ls)
                        \cup Range(m.drain.events)})

\* an exception leaves the call and its callers, none of which catches it
Thrown(f, m) == [f |-> Frame(f.op, "done"), m |-> [m EXCEPT !.threw = TRUE]]

\* this.eventQueue.push(event); this.saveQueueToStorage()
PushAndSave(f, m) ==
  LET event == [id |-> NewEventId(m), eventType |-> f.ev, anonId |-> f.anon,
                retryCount |-> 0]
      q == Append(m.eventQueue, event)
  IN  [m EXCEPT !.eventQueue = q, !.ls = q, !.enq = Append(@, f.ev)]

\* an optOut that leaves the queue as it is
queueKept(m) == m

\* this.eventQueue = []; this.saveQueueToStorage() of optOut
queueCleared(m) == [m EXCEPT !.eventQueue = <<>>, !.ls = <<>>]

\* the synchronous start of processQueue()
StartDrain(m) ==
  IF m.processingQueue \/ m.eventQueue = <<>> THEN m
  ELSE [m EXCEPT !.processingQueue = TRUE,
                 !.drain = [pc |-> "pq_get", events |-> <<>>, i |-> 0]]

\* the call suspends at the await pc
Await(f, pc, m) == [f |-> [f EXCEPT !.pc = pc], m |-> m]

\* await this.updateTelemetrySettings(u), to go on at the label after
CallUpdate(f, u, after, m) ==
  Await([f EXCEPT !.upd = u, !.cont = <<after>> \o @], "upd_get", m)

\* await this.createEvent(eventType), to go on at the label after
CallCreateEvent(f, eventType, after, m) ==
  Await([f EXCEPT !.ev = eventType, !.cont = <<after>> \o @], "ce_get", m)

\* newConsecutiveDays of sendDailyCompletionEvent at the instant t
newConsecutiveDays(ts, t) ==
  IF ts.lastCompletionDate = UtcDay(t - MinutesPerDay)
  THEN ts.consecutiveDays + 1 ELSE 1

RECURSIVE Return(_, _), Resume(_, _, _)

\* a function of the service returns: its caller goes on, or the call ends
Return(f, m) ==
  IF f.cont = <<>> THEN [f |-> Frame(f.op, "done"), m |-> m]
  ELSE Resume(Head(f.cont), [f EXCEPT !.cont = Tail(@)], m)

\* the code of the service from the label up to the next await
Resume(label, f, m) ==
  LET ts == GetMain(f.ts) IN
  IF label \in {"sa_push", "sd_push", "s7_push"} /\ m.fault = "push"
  THEN Thrown(f, m) ELSE
  CASE label = "optIn_after" ->
         IF ~ts.activationSent
         THEN Await([f EXCEPT !.cont = <<"optIn_end">> \o @], "sa_get", m)
         ELSE Resume("optIn_end", f, m)
    [] label = "optIn_end" -> Return(f, StartDrain(m))
    [] label = "optOut_after" ->
         Return(f, queueCleared(m))
    [] label = "ce_ret" -> Return(f, m)
    [] label = "sa_push" ->
         CallUpdate(f, [NoUpdates EXCEPT !.given = {"activationSent"},
                                         !.activationSent = TRUE],
                    "sa_end", PushAndSave(f, m))
    [] label = "sa_end" -> Return(f, StartDrain(m))
    [] label = "sd_push" ->
         LET n == newConsecutiveDays(ts, now)
         IN  CallUpdate([f EXCEPT !.n = n],
                        [NoUpdates EXCEPT
                           !.given = {"lastCompletionDate", "consecutiveDays",
                                      "d7EventSent"},
                           !.lastCompletionDate = f.today,
                           !.consecutiveDays = n,
                           !.d7EventSent = IF n >= 7 THEN FALSE
                                           ELSE ts.d7EventSent],
                        "sd_after", PushAndSave(f, m))
    [] label = "sd_after" ->
         IF f.n = 7 /\ ~ts.d7EventSent
         THEN Await([f EXCEPT !.cont = <<"sd_end">> \o @], "s7_get", m)
         ELSE Resume("sd_end", f, m)
    [] label = "sd_end" -> Return(f, StartDrain(m))
    [] label = "s7_push" ->
         CallUpdate(f, [NoUpdates EXCEPT !.given = {"d7EventSent"},
                                         !.d7EventSent = TRUE],
                    "s7_end", PushAndSave(f, m))
    [] label = "s7_end" -> Return(f, StartDrain(m))

\* the call f goes on from the await it is suspended at, when the request
\* it waits for has been served, up to its next await
Step(f, m) ==
  LET got == IF m.fault = "db" THEN {} ELSE getTelemetrySettings(m.settings)
      g == GetMain(got)
  IN
  CASE f.pc = "optIn_get" ->
         IF got = {} THEN Return(f, m)
         ELSE LET anonId == IF g.anonId # NoAnonId THEN g.anonId
                            ELSE generateAnonId(f, m)
              IN  CallUpdate([f EXCEPT !.ts = got],
                             [NoUpdates EXCEPT !.given = {"isOptedIn", "anonId"},
                                               !.isOptedIn = TRUE,
                                               !.anonId = anonId],
                             "optIn_after", m)
    [] f.pc = "upd_get" ->
         IF m.fault = "db" \/ m.settings = {}
         THEN Return([f EXCEPT !.upd = NoUpdates], m)
         ELSE Await([f EXCEPT
                       !.row = {updatedTelemetrySettings(GetMain(m.settings),
                                                         f.upd)},
                       !.upd = NoUpdates],
                    "upd_put", m)
    [] f.pc = "upd_put" ->
         Return([f EXCEPT !.row = {}],
                IF m.fault = "db" THEN m ELSE [m EXCEPT !.settings = f.row])
    [] f.pc = "sa_get" ->
         IF got = {} \/ ~g.isOptedIn \/ g.activationSent THEN Return(f, m)
         ELSE CallCreateEvent([f EXCEPT !.ts = got], "activation", "sa_push",
                              m)
    [] f.pc = "ce_get" ->
         IF got # {} /\ g.anonId # NoAnonId
         THEN Resume("ce_ret", [f EXCEPT !.anon = g.anonId], m)
         ELSE LET anonId == generateAnonId(f, m)
              IN  CallUpdate([f EXCEPT !.anon = anonId],
                             [NoUpdates EXCEPT !.given = {"anonId"},
                                               !.anonId = anonId],
                             "ce_ret", m)
    [] f.pc = "sd_get" ->
         IF got = {} \/ ~g.isOptedIn THEN Return(f, m)
         ELSE Await([f EXCEPT !.ts = got, !.today = UtcDay(now)], "sd_days", m)
    [] f.pc = "sd_days" ->
         IF GetMain(f.ts).lastCompletionDate = f.today THEN Return(f, m)
         ELSE CallCreateEvent(f, "daily_completion", "sd_push", m)
    [] f.pc = "s7_get" ->
         IF got = {} \/ ~g.isOptedIn \/ g.d7EventSent \/ g.consecutiveDays < 7
         THEN Return(f, m)
         ELSE CallCreateEvent([f EXCEPT !.ts = got], "d7_completion",
                              "s7_push", m)

\* the call runs to its end with no other call in between
RECURSIVE Complete(_, _)
Complete(f, m) ==
  IF f.pc = "done" THEN m ELSE LET r == Step(f, m) IN Complete(r.f, r.m)

\* the calls of the public API as they start
optIn == Frame("optIn", "optIn_get")
optOut ==
  [Frame("optOut", "upd_get") EXCEPT
     !.cont = <<"optOut_after">>,
     !.upd = [NoUpdates EXCEPT
                !.given = {"isOptedIn", "anonId", "activationSent",
                           "consecutiveDays", "lastCompletionDate",
                           "d7EventSent"}]]
sendActivationEvent == Frame("sendActivationEvent", "sa_get")
sendDailyCompletionEvent == Frame("sendDailyCompletionEvent", "sd_get")
sendD7CompletionEvent == Frame("sendD7CompletionEvent", "s7_get")

\* this.eventQueue.filter(e => e.id !== id)
WithoutEvent(q, id) == SelectSeq(q, LAMBDA e : e.id # id)

\* the failed send of processQueue: the retry count of the event goes up if
\* the queue still holds it
RetryCounted(q, id) ==
  [i \in DOMAIN q |-> IF q[i].id = id
                      THEN [q[i] EXCEPT !.retryCount = @ + 1] ELSE q[i]]

\* an end of processQueue that leaves processingQueue set
DrainEndsKeepsFlag(m) ==
  [m EXCEPT !.ls = m.eventQueue, !.drain = IdleDrain]

\* processQueue saving the events it has processed instead of the queue
DrainEndsSavesProcessed(m) ==
  [m EXCEPT !.ls = SelectSeq(m.eventQueue,
                             LAMBDA e : \E k \in DOMAIN m.drain.events :
                                          m.drain.events[k].id = e.id),
            !.processingQueue = FALSE,
            !.drain = IdleDrain]

\* the end of processQueue: saveQueueToStorage, and the finally block
DrainEnds(m) ==
  [m EXCEPT !.ls = m.eventQueue, !.processingQueue = FALSE,
            !.drain = IdleDrain]

\* the for loop of processQueue from the event at drain.i up to the next
\* send
RECURSIVE DrainLoop(_)
DrainLoop(m) ==
  LET d == m.drain IN
  IF d.i > Len(d.events) THEN DrainEnds(m)
  ELSE IF d.events[d.i].retryCount >= MAX_RETRY_ATTEMPTS
  THEN DrainLoop([m EXCEPT !.eventQueue = WithoutEvent(@, d.events[d.i].id),
                           !.drain.i = @ + 1])
  ELSE [m EXCEPT !.drain.pc = "pq_send"]

\* RETRY_DELAYS[Math.min(retryCount - 1, RETRY_DELAYS.length - 1)]
retryDelay(retryCount) ==
  RETRY_DELAYS[Min(retryCount - 1, Len(RETRY_DELAYS) - 1) + 1]

\* a failed send after which the loop goes on with the next event
SendFailedSkips(m) ==
  DrainLoop([m EXCEPT
               !.eventQueue = RetryCounted(@, m.drain.events[m.drain.i].id),
               !.drain.i = @ + 1])

\* the else branch of processQueue after a failed send: if the queue still
\* holds the event its retry count goes up and one retry is scheduled; the
\* loop is left
SendFailed(m) ==
  LET id == m.drain.events[m.drain.i].id
      q == RetryCounted(m.eventQueue, id)
      held == {k \in DOMAIN q : q[k].id = id}
  IN  DrainEnds([m EXCEPT
                   !.eventQueue = q,
                   !.retry = IF held = {} THEN @
                             ELSE Append(@, retryDelay(
                                    q[CHOOSE k \in held : TRUE].retryCount))])

\* processQueue goes on from the await it is suspended at; success is the
\* outcome of sendEventToServer
DrainStep(m, success) ==
  LET got == getTelemetrySettings(m.settings)
      d == m.drain
  IN
  CASE d.pc = "pq_get" ->
         IF got = {} \/ ~GetMain(got).isOptedIn
         THEN DrainEnds([m EXCEPT !.eventQueue = <<>>])
         ELSE DrainLoop([m EXCEPT !.drain = [pc |-> "pq_loop",
                                             events |-> m.eventQueue,
                                             i |-> 1]])
    [] d.pc = "pq_send" ->
         IF success
         THEN DrainLoop([m EXCEPT
                           !.eventQueue = WithoutEvent(@, d.events[d.i].id),
                           !.drain.i = @ + 1])
         ELSE SendFailed(m)

\* ---------------------------------------------------------------- history
HistInit ==
  [onlyNewSaves |-> TRUE, saveRun |-> 0, lastSaveDay |-> NoDate,
   swapDay |-> NoDate, swappedTo |-> NoId, wrongRun |-> 0,
   lockoutE |-> NoDate, wiped |-> FALSE, expired |-> FALSE,
   activations |-> 0, d7s |-> 0, dailyDay |-> NoDate,
   sends |-> <<>>, delivered |-> {}, instants |-> {}]

\* an operation other than a save of a new entry has run
Other(h) == [h EXCEPT !.onlyNewSaves = FALSE]

\* swapTodayPrompt has returned r
Swapped(h, r) ==
  IF r.ok THEN [h EXCEPT !.onlyNewSaves = FALSE, !.swapDay = getTodayString,
                         !.swappedTo = r.prompt]
  ELSE Other(h)

\* the first tab has verified a PIN with the result r; locked is its
\* isTemporaryLocked before the call; wrongRun counts the wrong PINs in a
\* row up to MAX_ATTEMPTS
Verified(h, r, locked) ==
  IF locked THEN h
  ELSE IF r.ok THEN [h EXCEPT !.wrongRun = 0, !.expired = FALSE]
  ELSE IF r.isTemporaryLocked
  THEN [h EXCEPT !.wrongRun = 0, !.lockoutE = r.lockoutEndTime,
                 !.wiped = FALSE, !.expired = FALSE]
  ELSE [h EXCEPT !.wrongRun = Min(@ + 1, MAX_ATTEMPTS), !.expired = FALSE]

\* the lockout of the first tab has reached its end
Expired(h) == [h EXCEPT !.expired = TRUE]

\* a new entry has been saved on the calendar day d
NewSave(h, d) ==
  IF h.saveRun = 0 \/ h.lastSaveDay = d - 1
  THEN [h EXCEPT !.saveRun = @ + 1, !.lastSaveDay = d]
  ELSE IF h.lastSaveDay = d THEN h
  ELSE [h EXCEPT !.onlyNewSaves = FALSE, !.saveRun = 1, !.lastSaveDay = d]

\* the service has pushed the events enq and left the settings table: the
\* activation events pushed since the installation (up to 2), the
\* d7_completion events pushed since the opt-in (up to 2), the calendar day
\* of the last daily_completion event
Pushed(h, enq, table) ==
  LET count(t) == Cardinality({i \in DOMAIN enq : enq[i] = t})
      optedIn == \E r \in table : r.telemetryOptIn
  IN  [h EXCEPT !.activations = Min(@ + count("activation"), 2),
                !.d7s = IF optedIn THEN Min(@ + count("d7_completion"), 2)
                        ELSE 0,
                !.dailyDay = IF count("daily_completion") > 0
                             THEN LocalDay(now) ELSE @]

\* the ids of the events the service, the persisted queue or the drain in
\* progress hold
IdsOf(m) ==
  {e.id : e \in Range(m.eventQueue) \cup Range(m.ls) \cup Range(m.drain.events)}

\* the sends and the deliveries of the events with these ids: sends[id] is
\* the number of requests made for the event (up to MAX_RETRY_ATTEMPTS + 1),
\* delivered holds the events a request of which has succeeded
Alive(h, ids) ==
  [h EXCEPT !.sends = [id \in ids |-> IF id \in DOMAIN @ THEN @[id] ELSE 0],
            !.delivered = @ \cap ids]

\* the event processQueue has called sendEventToServer for and waits at
SentBy(m) ==
  IF m.drain.pc = "pq_send" THEN <<m.drain.events[m.drain.i]>> ELSE <<>>

\* processQueue has gone on from the drain d to the state m: the send it
\* waited for has ended with success, and it has made the request SentBy(m)
Drained(h, d, m, success) ==
  LET ended == IF d.pc = "pq_send" /\ success THEN {d.events[d.i].id} ELSE {}
      made == {e.id : e \in Range(SentBy(m))}
      a == Alive(h, IdsOf(m) \cup ended \cup made)
  IN  Alive([a EXCEPT
               !.sends = [id \in DOMAIN @ |->
                            IF id \in made
                            THEN Min(@[id] + 1, MAX_RETRY_ATTEMPTS + 1)
                            ELSE @[id]],
               !.delivered = @ \cup ended],
            IdsOf(m))

\* no export is running
IdleExport == [pc |-> 0, snap |-> <<>>]

\* a handleSave call of a tab that is not in progress; in progress it holds
\* the entry it has added and the summary row its updateStreak has read
IdleSave == [pc |-> 0, entry |-> {}, streak |-> {}]

\* the four tables of the store
StoreNow == <<settings, prompts, entries, streakSummary>>

\* a write has left the store with the contents s: instants holds the
\* contents the store has had since the export in progress began
Instant(h, s) ==
  IF calls.export = IdleExport THEN h
  ELSE [h EXCEPT !.instants = @ \cup {s}]

\* what the service reads and writes, before a step of one of its calls
ServiceState ==
  Machine(settings, telemetryService, lsTelemetryQueue, calls.drain)

\* the service fields, the persisted queue and the drain after a step
Serviced(m) ==
  /\ telemetryService' = [eventQueue |-> m.eventQueue,
                          processingQueue |-> m.processingQueue]
  /\ lsTelemetryQueue' = m.ls
  /\ calls' = [calls EXCEPT !.drain = m.drain]

\* the page is loaded: the constructor of TelemetryService reads the
\* persisted queue and starts a drain; the calls of the old page are gone
Constructed(ls) ==
  LET m == StartDrain(Machine(settings,
                              [eventQueue |-> ls, processingQueue |-> FALSE],
                              ls, IdleDrain))
  IN  /\ telemetryService' = [eventQueue |-> m.eventQueue,
                              processingQueue |-> m.processingQueue]
      /\ lsTelemetryQueue' = ls
      /\ calls' = [api |-> <<>>, drain |-> m.drain, started |-> 0,
                   seed |-> <<>>, export |-> IdleExport,
              save |-> <<IdleSave, IdleSave>>]

\* the second tab before it is opened
ClosedTab ==
  [open |-> FALSE, todayEntry |-> {}, isLocked |-> FALSE, attemptCount |-> 0,
   isTemporaryLocked |-> FALSE, lockoutEndTime |-> NoDate]

\* ------------------------------------------------------------------- init
Init ==
  /\ tzOffset \in TzOffsets
  /\ now = FirstLaunch
  /\ settings = {}
  /\ prompts = <<>>
  /\ entries = {}
  /\ streakSummary = {}
  /\ nextEntryId = 0
  /\ appSettings = {}
  /\ todayEntry = {}
  /\ otherTab = ClosedTab
  /\ canSwap = TRUE
  /\ isFirstLaunch = TRUE
  /\ currentView = "onboarding"
  /\ isLocked = FALSE
  /\ attemptCount = 0
  /\ isTemporaryLocked = FALSE
  /\ lockoutEndTime = NoDate
  /\ lsPinAttempts = NoDate
  /\ lsPinLockoutEnd = NoDate
  /\ lsLastActivity = NoDate
  /\ lsSessionLocked = FALSE
  /\ lsAppStore = FALSE
  /\ lockTimerAt = NoDate
  /\ telemetryService = [eventQueue |-> <<>>, processingQueue |-> FALSE]
  /\ lsTelemetryQueue = <<>>
  /\ calls = [api |-> <<>>, drain |-> IdleDrain, started |-> 0,
              seed |-> <<>>, export |-> IdleExport,
              save |-> <<IdleSave, IdleSave>>]
  /\ ret = Ret("init", TRUE, "")
  /\ hist = HistInit

\* ------------------------------------------------------------- onboarding
\* OnboardingFlow.completeOnboarding, then the first render of the
\* application (AppGuard, TodayCard)
CompleteOnboarding(withPin, pin, salt) ==
  /\ isFirstLaunch
  /\ isValidPin(pin)
  /\ LET s0 == [GetMain(initializeSettings(settings))
                  EXCEPT !.telemetryOptIn = FALSE]
         pinData == hashPin(pin, salt)
         updatedSettings ==
           IF withPin
           THEN [s0 EXCEPT !.pinSalt = pinData.salt,
                           !.pinIterations = pinData.iterations,
                           !.pinHash = pinData.hash]
           ELSE s0
         m == Mounted("today", initializeSeedPrompts(prompts),
                      initializeStreakSummary(streakSummary), todayEntry,
                      entries, {updatedSettings}, {updatedSettings})
         eff == AutoLockEffect({updatedSettings}, isLocked, lsSessionLocked)
     IN  /\ settings' = {updatedSettings}
         /\ appSettings' = {updatedSettings}
         /\ prompts' = m.prompts
         /\ streakSummary' = m.streakSummary
         /\ todayEntry' = m.todayEntry
         /\ canSwap' = m.canSwap
         /\ isLocked' = eff.isLocked
         /\ lsLastActivity' = eff.lsLastActivity
         /\ lockTimerAt' = eff.lockTimerAt
         /\ ret' = [Ret("completeOnboarding", TRUE, "") EXCEPT
                      !.prompt = m.prompt]
  /\ isFirstLaunch' = FALSE
  /\ currentView' = "today"
  /\ lsAppStore' = TRUE
  /\ hist' = hist
  /\ UNCHANGED <<now, tzOffset, entries, nextEntryId, otherTab, attemptCount,
                 isTemporaryLocked, lockoutEndTime, lsPinAttempts,
                 lsPinLockoutEnd, lsSessionLocked>>
  /\ UNCHANGED telVars

\* ------------------------------------------------------------------ clock
\* a lockout timer that never clears the lockout
LockoutNeverEnds(locked, endTime, t) == FALSE

\* updateTimer of the lockout timer effect of PinProvider at the instant t:
\* the lockout of a tab has reached its end
LockoutEnded(locked, endTime, t) ==
  locked /\ endTime # NoDate /\ endTime - t <= 0

\* time passes by step minutes with no user gesture; on the way the
\* inactivity timer of initActivityTracking fires when its delay elapses, and
\* the lockout timer of PinProvider clears an expired lockout
Tick(step, horizon) ==
  /\ now + step <= FirstLaunch + horizon
  /\ now' = now + step
  /\ LET fires == lockTimerAt # NoDate /\ now + step >= lockTimerAt
         expires == LockoutEnded(isTemporaryLocked, lockoutEndTime, now + step)
         otherExpires == LockoutEnded(otherTab.isTemporaryLocked,
                                      otherTab.lockoutEndTime, now + step)
     IN  /\ isLocked' = (isLocked \/ fires)
         /\ lsSessionLocked' = (lsSessionLocked \/ fires)
         /\ lsLastActivity' = IF fires THEN NoDate ELSE lsLastActivity
         /\ lockTimerAt' = IF fires THEN NoDate ELSE lockTimerAt
         /\ isTemporaryLocked' = IF expires THEN FALSE ELSE isTemporaryLocked
         /\ lockoutEndTime' = IF expires THEN NoDate ELSE lockoutEndTime
         /\ attemptCount' = IF expires THEN 0 ELSE attemptCount
         /\ lsPinLockoutEnd' = IF expires \/ otherExpires THEN NoDate
                               ELSE lsPinLockoutEnd
         /\ lsPinAttempts' = IF expires \/ otherExpires THEN NoDate
                             ELSE lsPinAttempts
         /\ otherTab' = IF otherExpires
                        THEN [otherTab EXCEPT !.isTemporaryLocked = FALSE,
                                              !.lockoutEndTime = NoDate,
                                              !.attemptCount = 0]
                        ELSE otherTab
         /\ hist' = IF expires THEN Expired(hist) ELSE hist
  /\ ret' = Ret("tick", TRUE, "")
  /\ UNCHANGED <<tzOffset, dbVars, appSettings, todayEntry, canSwap,
                 isFirstLaunch, currentView, lsAppStore>>
  /\ UNCHANGED telVars

\* ----------------------------------------------------------------- reload
\* the page is loaded again: the in-memory stores start from their initial
\* values, PinProvider runs initializePinState, AppGuard.initializeApp reads
\* the settings row, the component of the current view mounts
Reload ==
  LET view == IF lsAppStore THEN currentView ELSE "onboarding"
      loaded == settings
      first == loaded = {}
      pin == initializePinState
      eff == AutoLockEffect(loaded, FALSE, lsSessionLocked)
      shown == ~first /\ ~(IsPinEnabled(loaded) /\ eff.isLocked)
      m == IF shown
           THEN Mounted(view, prompts, streakSummary, {}, entries, loaded,
                        settings)
           ELSE [prompts |-> prompts, streakSummary |-> streakSummary,
                 todayEntry |-> {}, canSwap |-> TRUE, prompt |-> NoId]
  IN  /\ isFirstLaunch' = first
      /\ currentView' = view
      /\ appSettings' = loaded
      /\ attemptCount' = pin.attemptCount
      /\ isTemporaryLocked' = pin.isTemporaryLocked
      /\ lockoutEndTime' = pin.lockoutEndTime
      /\ lsPinAttempts' = pin.lsPinAttempts
      /\ lsPinLockoutEnd' = pin.lsPinLockoutEnd
      /\ isLocked' = eff.isLocked
      /\ lsLastActivity' = eff.lsLastActivity
      /\ lockTimerAt' = eff.lockTimerAt
      /\ prompts' = m.prompts
      /\ streakSummary' = m.streakSummary
      /\ todayEntry' = m.todayEntry
      /\ canSwap' = m.canSwap
      /\ lsAppStore' = (lsAppStore \/ ~first)
      /\ ret' = [Ret("reload", TRUE, "") EXCEPT !.prompt = m.prompt]
      /\ hist' = Alive(hist, {e.id : e \in Range(lsTelemetryQueue)})
      /\ UNCHANGED <<now, tzOffset, settings, entries, nextEntryId, otherTab,
                     lsSessionLocked>>
      /\ Constructed(lsTelemetryQueue)

\* the page goes away without a visibilitychange event (the browser or the
\* device is shut down): its timers and its in-memory state are gone, the
\* store and localStorage stay as they are
PageDiscarded ==
  /\ ~isFirstLaunch
  /\ appSettings # {}
  /\ appSettings' = {}
  /\ todayEntry' = {}
  /\ canSwap' = TRUE
  /\ isLocked' = FALSE
  /\ attemptCount' = 0
  /\ isTemporaryLocked' = FALSE
  /\ lockoutEndTime' = NoDate
  /\ lockTimerAt' = NoDate
  /\ ret' = Ret("pageDiscarded", TRUE, "")
  /\ hist' = Other(hist)
  /\ UNCHANGED <<now, tzOffset, dbVars, otherTab, isFirstLaunch, currentView,
                 lsPinAttempts, lsPinLockoutEnd, lsLastActivity,
                 lsSessionLocked, lsAppStore>>
  /\ UNCHANGED telVars

\* ------------------------------------------------------------- navigation
\* setCurrentView(v): the component of the view mounts and runs its effect
Navigate(v) ==
  /\ AppVisible
  /\ v # currentView
  /\ currentView' = v
  /\ LET m == Mounted(v, prompts, streakSummary, todayEntry, entries,
                      appSettings, settings)
     IN  /\ prompts' = m.prompts
         /\ streakSummary' = m.streakSummary
         /\ todayEntry' = m.todayEntry
         /\ canSwap' = m.canSwap
         /\ ret' = [Ret("navigate", TRUE, "") EXCEPT
                      !.prompt = m.prompt,
                      !.call = IF v = "today"
                               THEN "validateAndRecoverStreakData" ELSE "",
                      !.validation = m.validation]
  /\ lsAppStore' = TRUE
  /\ hist' = hist
  /\ UserActivity
  /\ UNCHANGED <<now, tzOffset, settings, entries, nextEntryId, appSettings,
                 otherTab, isFirstLaunch>>
  /\ UNCHANGED telVars

\* -------------------------------------------------------------- PIN lock
\* the PinProvider state of the first tab and the localStorage keys
PinState ==
  [isLocked |-> isLocked, attemptCount |-> attemptCount,
   isTemporaryLocked |-> isTemporaryLocked, lockoutEndTime |-> lockoutEndTime,
   lsPinAttempts |-> lsPinAttempts, lsPinLockoutEnd |-> lsPinLockoutEnd,
   lsLastActivity |-> lsLastActivity, lsSessionLocked |-> lsSessionLocked]

\* the PinProvider state of the second tab and the localStorage keys
OtherPinState ==
  [PinState EXCEPT !.isLocked = otherTab.isLocked,
                   !.attemptCount = otherTab.attemptCount,
                   !.isTemporaryLocked = otherTab.isTemporaryLocked,
                   !.lockoutEndTime = otherTab.lockoutEndTime]

\* the test of PinProvider.verifyPin that never rejects for a lockout
LockoutIgnored(ps) == FALSE

\* the first test of PinProvider.verifyPin
LockoutActive(ps) == ps.isTemporaryLocked

\* the lockout test of PinProvider.verifyPin, one attempt late
LockoutStartsLate(newAttemptCount) == newAttemptCount > MAX_ATTEMPTS

\* the test of PinProvider.verifyPin that starts the lockout
LockoutStarts(newAttemptCount) == newAttemptCount >= MAX_ATTEMPTS

\* PinProvider.verifyPin in a tab whose PinProvider state (with the
\* localStorage keys) is ps and whose store settings are store: the state it
\* leaves, with what it returns in ok and err
verifyPin(pin, ps, store) ==
  LET same == [ok |-> FALSE, err |-> ""] @@ ps
      newAttemptCount == ps.attemptCount + 1
      lockoutEnd == now + LOCKOUT_DURATION
  IN  IF LockoutActive(ps) THEN [same EXCEPT !.err = "temporarilyLocked"]
      ELSE IF ~isValidPin(pin) THEN [same EXCEPT !.err = "format"]
      ELSE IF ~IsPinEnabled(store) THEN [same EXCEPT !.err = "notConfigured"]
      ELSE IF cryptoVerifyPin(pin, [hash |-> GetMain(store).pinHash,
                                    salt |-> GetMain(store).pinSalt,
                                    iterations |-> GetMain(store).pinIterations])
      THEN [same EXCEPT !.ok = TRUE, !.lsPinAttempts = NoDate,
                        !.lsPinLockoutEnd = NoDate, !.attemptCount = 0,
                        !.isTemporaryLocked = FALSE, !.lockoutEndTime = NoDate,
                        !.lsSessionLocked = FALSE, !.lsLastActivity = now,
                        !.isLocked = FALSE]
      ELSE IF LockoutStarts(newAttemptCount)
      THEN [same EXCEPT !.err = "tooMany", !.attemptCount = newAttemptCount,
                        !.lsPinAttempts = newAttemptCount,
                        !.isTemporaryLocked = TRUE,
                        !.lockoutEndTime = lockoutEnd,
                        !.lsPinLockoutEnd = lockoutEnd]
      ELSE [same EXCEPT !.err = "incorrect", !.attemptCount = newAttemptCount,
                        !.lsPinAttempts = newAttemptCount]

\* LockScreen.handleVerifyPin, submitted by PinEntry.handleSubmit; on success
\* AppGuard renders the application and the component of the view mounts
VerifyPin(pin) ==
  /\ ~isFirstLaunch
  /\ IsPinEnabled(appSettings)
  /\ isLocked
  /\ ~isTemporaryLocked
  /\ isValidPin(pin)
  /\ LET r == verifyPin(pin, PinState, appSettings)
         m == IF r.ok
              THEN Mounted(currentView, prompts, streakSummary, todayEntry,
                           entries, appSettings, settings)
              ELSE [prompts |-> prompts, streakSummary |-> streakSummary,
                    todayEntry |-> todayEntry, canSwap |-> canSwap,
                    prompt |-> NoId]
     IN  /\ isLocked' = r.isLocked
         /\ attemptCount' = r.attemptCount
         /\ isTemporaryLocked' = r.isTemporaryLocked
         /\ lockoutEndTime' = r.lockoutEndTime
         /\ lsPinAttempts' = r.lsPinAttempts
         /\ lsPinLockoutEnd' = r.lsPinLockoutEnd
         /\ lsSessionLocked' = r.lsSessionLocked
         /\ lsLastActivity' = now
         /\ lockTimerAt' = now + TimeoutOf(appSettings)
         /\ prompts' = m.prompts
         /\ streakSummary' = m.streakSummary
         /\ todayEntry' = m.todayEntry
         /\ canSwap' = m.canSwap
         /\ ret' = [Ret("verifyPin", r.ok, r.err) EXCEPT
                      !.pin = pin, !.prompt = m.prompt]
         /\ hist' = Verified(hist, r, isTemporaryLocked)
  /\ UNCHANGED <<now, tzOffset, settings, entries, nextEntryId, appSettings,
                 otherTab, isFirstLaunch, currentView, lsAppStore>>
  /\ UNCHANGED telVars

\* a disablePin that goes on whatever the verification returned
DisableProceedsAlways(verifyResult) == TRUE

\* PinProvider.disablePin goes on to remove the PIN fields
DisableProceeds(verifyResult) == verifyResult.ok

\* PinProvider.disablePin
DisablePinCall(pin) ==
  /\ LET r == verifyPin(pin, PinState, appSettings)
         go == DisableProceeds(r)
         tracked == HasPinHash(appSettings)
         updatedSettings == [GetMain(appSettings) EXCEPT
                               !.pinHash = NoHash, !.pinSalt = 0,
                               !.pinIterations = 0]
     IN  /\ settings' = IF go THEN {updatedSettings} ELSE settings
         /\ appSettings' = IF go THEN {updatedSettings} ELSE appSettings
         /\ isLocked' = r.isLocked
         /\ attemptCount' = r.attemptCount
         /\ isTemporaryLocked' = r.isTemporaryLocked
         /\ lockoutEndTime' = r.lockoutEndTime
         /\ lsPinAttempts' = r.lsPinAttempts
         /\ lsPinLockoutEnd' = r.lsPinLockoutEnd
         /\ lsSessionLocked' = r.lsSessionLocked
         /\ lsLastActivity' = IF go THEN NoDate
                              ELSE IF tracked THEN now ELSE lsLastActivity
         /\ lockTimerAt' = IF go \/ ~tracked THEN NoDate
                           ELSE now + TimeoutOf(appSettings)
         /\ ret' = [Ret("disablePin", r.ok, r.err) EXCEPT !.pin = pin]
         /\ hist' = Other(Verified(hist, r, isTemporaryLocked))
  /\ lsAppStore' = TRUE
  /\ UNCHANGED <<now, tzOffset, prompts, entries, streakSummary, nextEntryId,
                 todayEntry, otherTab, canSwap, isFirstLaunch, currentView>>
  /\ UNCHANGED telVars

\* PinProvider.disablePin, called by SecuritySettings.handleDisablePin with
\* the PIN that PinEntry.handleSubmit lets through
DisablePin(pin) ==
  /\ AppVisible
  /\ currentView = "settings"
  /\ IsPinEnabled(appSettings)
  /\ isValidPin(pin)
  /\ DisablePinCall(pin)

\* PinProvider.disablePin, called by a consumer of the PIN context with any
\* string
ContextDisablePin(pin) ==
  /\ ~isFirstLaunch
  /\ DisablePinCall(pin)

\* PinProvider.setupPin, called by SecuritySettings.handleSetupPin; the
\* auto-lock effect then runs for the new pinHash
SetupPin(pin, salt) ==
  /\ AppVisible
  /\ currentView = "settings"
  /\ ~IsPinEnabled(appSettings)
  /\ isValidPin(pin)
  /\ LET hashData == hashPin(pin, salt)
         updatedSettings == [GetMain(appSettings) EXCEPT
                               !.pinHash = hashData.hash,
                               !.pinSalt = hashData.salt,
                               !.pinIterations = hashData.iterations,
                               !.lockTimeoutMinutes = TimeoutOf(appSettings)]
         eff == AutoLockEffect({updatedSettings}, FALSE, FALSE)
     IN  /\ settings' = {updatedSettings}
         /\ appSettings' = {updatedSettings}
         /\ isLocked' = eff.isLocked
         /\ lsLastActivity' = eff.lsLastActivity
         /\ lockTimerAt' = eff.lockTimerAt
  /\ lsSessionLocked' = FALSE
  /\ lsAppStore' = TRUE
  /\ ret' = [Ret("setupPin", TRUE, "") EXCEPT !.pin = pin]
  /\ hist' = Other([hist EXCEPT !.wrongRun = 0])
  /\ UNCHANGED <<now, tzOffset, prompts, entries, streakSummary, nextEntryId,
                 todayEntry, otherTab, canSwap, isFirstLaunch, currentView,
                 attemptCount, isTemporaryLocked, lockoutEndTime,
                 lsPinAttempts, lsPinLockoutEnd>>
  /\ UNCHANGED telVars

\* PinProvider.updateLockTimeout, called by SecuritySettings.handleTimeoutChange;
\* the auto-lock effect runs again when the timeout changed
UpdateLockTimeout(minutes) ==
  /\ AppVisible
  /\ currentView = "settings"
  /\ IsPinEnabled(appSettings)
  /\ minutes >= 1 /\ minutes <= 120
  /\ LET updatedSettings == [GetMain(appSettings) EXCEPT
                               !.lockTimeoutMinutes = minutes]
         eff == IF AutoLockDepsChanged(appSettings, {updatedSettings})
                THEN AutoLockEffect({updatedSettings}, isLocked,
                                    lsSessionLocked)
                ELSE [isLocked |-> isLocked, lsLastActivity |-> now,
                      lockTimerAt |-> now + TimeoutOf(appSettings)]
     IN  /\ settings' = {updatedSettings}
         /\ appSettings' = {updatedSettings}
         /\ isLocked' = eff.isLocked
         /\ lsLastActivity' = eff.lsLastActivity
         /\ lockTimerAt' = eff.lockTimerAt
  /\ lsAppStore' = TRUE
  /\ ret' = Ret("updateLockTimeout", TRUE, "")
  /\ hist' = Other(hist)
  /\ UNCHANGED <<now, tzOffset, prompts, entries, streakSummary, nextEntryId,
                 todayEntry, otherTab, canSwap, isFirstLaunch, currentView,
                 attemptCount, isTemporaryLocked, lockoutEndTime,
                 lsPinAttempts, lsPinLockoutEnd, lsSessionLocked>>
  /\ UNCHANGED telVars

\* handleVisibilityChange of sessionUtils.initActivityTracking with
\* document.hidden: lockSession and handleAutoLock
TabHidden ==
  /\ ~isFirstLaunch
  /\ HasPinHash(appSettings)
  /\ ~isLocked
  /\ isLocked' = TRUE
  /\ lsSessionLocked' = TRUE
  /\ lsLastActivity' = NoDate
  /\ ret' = Ret("tabHidden", TRUE, "")
  /\ hist' = Other(hist)
  /\ UNCHANGED <<now, tzOffset, dbVars, appSettings, todayEntry, otherTab,
                 canSwap, isFirstLaunch, currentView, attemptCount,
                 isTemporaryLocked, lockoutEndTime, lsPinAttempts,
                 lsPinLockoutEnd, lsAppStore, lockTimerAt>>
  /\ UNCHANGED telVars

\* PinProvider.lock, called by a consumer of the PIN context
Lock ==
  /\ ~isFirstLaunch
  /\ isLocked' = TRUE
  /\ lsSessionLocked' = TRUE
  /\ lsLastActivity' = NoDate
  /\ ret' = Ret("lock", TRUE, "")
  /\ hist' = Other(hist)
  /\ UNCHANGED <<now, tzOffset, dbVars, appSettings, todayEntry, otherTab,
                 canSwap, isFirstLaunch, currentView, attemptCount,
                 isTemporaryLocked, lockoutEndTime, lsPinAttempts,
                 lsPinLockoutEnd, lsAppStore, lockTimerAt>>
  /\ UNCHANGED telVars

\* PinProvider.unlock, called by a consumer of the PIN context
Unlock ==
  /\ ~isFirstLaunch
  /\ isLocked' = FALSE
  /\ lsSessionLocked' = FALSE
  /\ lsLastActivity' = now
  /\ ret' = Ret("unlock", TRUE, "")
  /\ hist' = Other(hist)
  /\ UNCHANGED <<now, tzOffset, dbVars, appSettings, todayEntry, otherTab,
                 canSwap, isFirstLaunch, currentView, attemptCount,
                 isTemporaryLocked, lockoutEndTime, lsPinAttempts,
                 lsPinLockoutEnd, lsAppStore, lockTimerAt>>
  /\ UNCHANGED telVars

\* ------------------------------------------------------------------- wipe
\* the four tables
Tables ==
  [settings |-> settings, prompts |-> prompts, entries |-> entries,
   streakSummary |-> streakSummary]

\* the tables after the first k clear() calls of the wipe transaction
ClearedTo(t, k) ==
  [settings |-> IF k >= 1 THEN {} ELSE t.settings,
   prompts |-> IF k >= 2 THEN <<>> ELSE t.prompts,
   entries |-> IF k >= 3 THEN {} ELSE t.entries,
   streakSummary |-> IF k >= 4 THEN {} ELSE t.streakSummary]

\* a transaction whose writes stay when it throws
TransactionKeepsWrites(before, written) == written

\* db.transaction('rw', ...) whose callback throws: Dexie aborts it and the
\* tables are as before
TransactionAborted(before, written) == before

\* the transaction of wipeAllData, deleteAllData and resetWithWipe; failAt is
\* the clear() that throws
wipeTransaction(t, failAt) ==
  IF failAt = 0
  THEN [ok |-> TRUE, tables |-> ClearedTo(t, 4)]
  ELSE [ok |-> FALSE,
        tables |-> TransactionAborted(t, ClearedTo(t, failAt - 1))]

\* the reset is offered by the lock screen after MAX_ATTEMPTS failures and by
\* the security settings
ResetOffered ==
  \/ AppVisible /\ currentView = "settings"
  \/ /\ ~isFirstLaunch
     /\ IsPinEnabled(appSettings)
     /\ isLocked
     /\ attemptCount >= MAX_ATTEMPTS

\* PinProvider.resetWithWipe, called by LockScreen.handleConfirmReset and by
\* SecuritySettings.handleResetWithWipe, with the page reload both schedule:
\* the four tables and every nvj_ and negviz key are cleared, then the
\* application starts from the emptied stores
ResetWithWipe ==
  /\ ResetOffered
  /\ LET w == wipeTransaction(Tables, 0)
     IN  /\ settings' = w.tables.settings
         /\ prompts' = w.tables.prompts
         /\ entries' = w.tables.entries
         /\ streakSummary' = w.tables.streakSummary
  /\ appSettings' = {}
  /\ todayEntry' = {}
  /\ canSwap' = TRUE
  /\ isFirstLaunch' = TRUE
  /\ currentView' = "onboarding"
  /\ isLocked' = FALSE
  /\ attemptCount' = 0
  /\ isTemporaryLocked' = FALSE
  /\ lockoutEndTime' = NoDate
  /\ lsPinAttempts' = NoDate
  /\ lsPinLockoutEnd' = NoDate
  /\ lsLastActivity' = NoDate
  /\ lsSessionLocked' = FALSE
  /\ lsAppStore' = FALSE
  /\ lockTimerAt' = NoDate
  /\ ret' = Ret("resetWithWipe", TRUE, "")
  /\ hist' = Other([hist EXCEPT !.wiped = TRUE, !.wrongRun = 0,
                                !.expired = FALSE, !.activations = 0,
                                !.d7s = 0, !.dailyDay = NoDate,
                                !.sends = <<>>, !.delivered = {}])
  /\ Constructed(<<>>)
  /\ UNCHANGED <<now, tzOffset, nextEntryId, otherTab>>

\* PinProvider.resetWithWipe when a clear() of its transaction throws: the
\* catch returns the failure before any key is removed
ResetWithWipeFails(failAt) ==
  /\ ResetOffered
  /\ failAt # 0
  /\ LET w == wipeTransaction(Tables, failAt)
     IN  /\ settings' = w.tables.settings
         /\ prompts' = w.tables.prompts
         /\ entries' = w.tables.entries
         /\ streakSummary' = w.tables.streakSummary
         /\ ret' = Ret("resetWithWipe", w.ok, "failedToReset")
  /\ hist' = Other(hist)
  /\ UNCHANGED <<now, tzOffset, nextEntryId, appSettings, todayEntry,
                 otherTab, canSwap, isFirstLaunch, currentView, pinVars,
                 lsAppStore>>
  /\ UNCHANGED telVars

\* the second tab shows the application, so its TabDetection is mounted
OtherTabShown ==
  otherTab.open /\ ~(IsPinEnabled(settings) /\ otherTab.isLocked)

\* dbUtils.checkForOtherTabs: a message arrives on nvj-tab-check before the
\* timeout; the ping reaches the TabDetection channel of every page that
\* shows the application, the page that sends it included
checkForOtherTabs(channel) == channel /\ (AppVisible \/ OtherTabShown)

\* SettingsPage.handleDeleteAllData: dbUtils.deleteAllData, and on success
\* the page reload it schedules
DeleteAllData(channel, failAt) ==
  /\ AppVisible
  /\ currentView = "settings"
  /\ LET hasOtherTabs == checkForOtherTabs(channel)
         w == IF hasOtherTabs THEN [ok |-> FALSE, tables |-> Tables]
              ELSE wipeTransaction(Tables, failAt)
     IN  /\ settings' = w.tables.settings
         /\ prompts' = w.tables.prompts
         /\ entries' = w.tables.entries
         /\ streakSummary' = w.tables.streakSummary
         /\ appSettings' = IF w.ok THEN {} ELSE appSettings
         /\ todayEntry' = IF w.ok THEN {} ELSE todayEntry
         /\ canSwap' = IF w.ok THEN TRUE ELSE canSwap
         /\ isFirstLaunch' = IF w.ok THEN TRUE ELSE isFirstLaunch
         /\ currentView' = IF w.ok THEN "onboarding" ELSE currentView
         /\ isLocked' = IF w.ok THEN FALSE ELSE isLocked
         /\ attemptCount' = IF w.ok THEN 0 ELSE attemptCount
         /\ isTemporaryLocked' = IF w.ok THEN FALSE ELSE isTemporaryLocked
         /\ lockoutEndTime' = IF w.ok THEN NoDate ELSE lockoutEndTime
         /\ lsPinAttempts' = IF w.ok THEN NoDate ELSE lsPinAttempts
         /\ lsPinLockoutEnd' = IF w.ok THEN NoDate ELSE lsPinLockoutEnd
         /\ lsLastActivity' = IF w.ok THEN NoDate
                              ELSE IF HasPinHash(appSettings) THEN now
                              ELSE lsLastActivity
         /\ lsSessionLocked' = IF w.ok THEN FALSE ELSE lsSessionLocked
         /\ lsAppStore' = ~w.ok
         /\ lockTimerAt' = IF w.ok \/ ~HasPinHash(appSettings) THEN NoDate
                           ELSE now + TimeoutOf(appSettings)
         /\ ret' = [Ret("deleteAllData", w.ok,
                        IF hasOtherTabs THEN "closeOtherTabs"
                        ELSE IF w.ok THEN "" ELSE "deletionFailed")
                      EXCEPT !.channel = channel]
         /\ hist' = IF w.ok
                    THEN Other([hist EXCEPT !.wiped = TRUE, !.wrongRun = 0,
                                           !.expired = FALSE,
                                           !.activations = 0, !.d7s = 0,
                                           !.dailyDay = NoDate,
                                           !.sends = <<>>, !.delivered = {}])
                    ELSE Other(hist)
         /\ IF w.ok THEN Constructed(<<>>) ELSE UNCHANGED telVars
  /\ UNCHANGED <<now, tzOffset, nextEntryId, otherTab>>

\* ------------------------------------------------------------------ export
\* A JavaScript object is its own property names (keys) and those of them
\* whose value is undefined (undef).
PinFields == {"pinSalt", "pinIterations", "pinHash"}

\* the Settings row as db.settings.get('main') returns it: the optional
\* fields the row does not hold are absent
SettingsObject(row) ==
  [keys |-> {"id", "lockTimeoutMinutes", "dailyCueEnabled",
             "notificationsEnabled", "telemetryOptIn", "installAt",
             "currentTheme"}
            \cup (IF row.pinHash # NoHash THEN {"pinHash"} ELSE {})
            \cup (IF row.pinSalt # 0 THEN {"pinSalt"} ELSE {})
            \cup (IF row.pinIterations # 0 THEN {"pinIterations"} ELSE {})
            \cup (IF row.swapUsedDate # NoDate THEN {"swapUsedDate"} ELSE {})
            \cup (IF row.lastPromptDate # NoDate THEN {"lastPromptDate"}
                  ELSE {})
            \cup (IF row.lastPromptId # NoId THEN {"lastPromptId"} ELSE {})
            \cup (IF row.telemetryAnonId # NoAnonId THEN {"telemetryAnonId"}
                  ELSE {})
            \cup (IF row.telemetryLastCompletionDate # NoDate
                  THEN {"telemetryLastCompletionDate"} ELSE {}),
   undef |-> {}]

\* an export that copies the Settings row as it is
settingsCopied(obj) == obj

\* sanitizedSettings of exportDataWithProgress: the spread of the row with
\* the three PIN properties assigned undefined
sanitizedSettings(obj) ==
  [keys |-> obj.keys \cup PinFields, undef |-> obj.undef \cup PinFields]

\* JSON.stringify of an object: the property names written, a property whose
\* value is undefined is left out
JsonStringify(obj) == obj.keys \ obj.undef

\* the property names in the text JSON.stringify(exportData, null, 2) gives
\* for the tables; edited_at, duration_seconds and gratitude_prompt are
\* counted as written
\* the tables in the order in which exportDataWithProgress asks for them
ExportTables == <<"settings", "prompts", "entries", "streakSummary">>

exportDataWithProgress(st, rows, ents, streak) ==
  {"meta", "entries", "settings", "prompts", "streakSummary"}
  \cup {"appName", "appVersion", "exportedAt", "entryCount"}
  \cup (IF ents = {} THEN {}
        ELSE {"id", "createdAt", "content", "setback", "protective_step",
              "gratitude", "metadata", "dateLocal", "prompt_id", "edited_at",
              "duration_seconds"})
  \cup (IF st = {} THEN {}
        ELSE JsonStringify(sanitizedSettings(SettingsObject(GetMain(st)))))
  \cup (IF rows = <<>> THEN {}
        ELSE {"id", "text", "gratitude_prompt", "archived", "source",
              "created_at"})
  \cup (IF streak = {} THEN {}
        ELSE {"id", "start_date", "current_streak", "longest_streak",
              "last_entry_date"})

\* SettingsPage.handleDataExport
HandleDataExport ==
  /\ AppVisible
  /\ currentView = "settings"
  /\ ret' = [Ret("handleDataExport", TRUE, "")
               EXCEPT !.json = exportDataWithProgress(settings, prompts,
                                                      entries, streakSummary)]
  /\ hist' = Other(hist)
  /\ UserActivity
  /\ UNCHANGED <<now, tzOffset, settings, prompts, entries, streakSummary,
                 nextEntryId, appSettings, todayEntry, otherTab, canSwap,
                 isFirstLaunch, currentView, lsAppStore>>
  /\ UNCHANGED telVars

\* SettingsPage.handleDataExport up to the await of exportDataWithProgress,
\* which has made its four requests
ExportStart ==
  /\ AppVisible
  /\ currentView = "settings"
  /\ calls.export = IdleExport
  /\ calls' = [calls EXCEPT !.export = [pc |-> 1, snap |-> <<>>]]
  /\ ret' = [Ret("handleDataExport", TRUE, "") EXCEPT !.call = "start"]
  /\ hist' = [Other(hist) EXCEPT !.instants = {StoreNow}]
  /\ UserActivity
  /\ UNCHANGED <<now, tzOffset, dbVars, appSettings, todayEntry, otherTab,
                 canSwap, isFirstLaunch, currentView, lsAppStore,
                 telemetryService, lsTelemetryQueue>>

\* the next of the four requests of exportDataWithProgress is served, each
\* in a transaction of its own; after the last one the export is built
ExportRead ==
  /\ calls.export # IdleExport
  /\ LET k == calls.export.pc
         snap == Append(calls.export.snap, StoreNow[k])
         last == k = Len(ExportTables)
     IN  /\ calls' = [calls EXCEPT
                        !.export = IF last THEN IdleExport
                                   ELSE [pc |-> k + 1, snap |-> snap]]
         /\ ret' = [Ret("exportDataWithProgress", last, "")
                      EXCEPT !.call = ExportTables[k],
                             !.snapshot = IF last THEN snap ELSE <<>>,
                             !.json = IF last
                                      THEN exportDataWithProgress(
                                             snap[1], snap[2], snap[3], snap[4])
                                      ELSE {}]
         /\ hist' = [hist EXCEPT !.instants = IF last THEN {} ELSE @]
  /\ UNCHANGED <<now, tzOffset, dbVars, appSettings, todayEntry, otherTab,
                 canSwap, isFirstLaunch, currentView, pinVars, lsAppStore,
                 telemetryService, lsTelemetryQueue>>

\* ------------------------------------------------------------ daily prompt
\* TodayCard.handleSwapPrompt
SwapTodayPrompt(rnd) ==
  /\ AppVisible
  /\ currentView = "today"
  /\ canSwap
  /\ LET r == swapTodayPrompt(GetMain(appSettings).installAt, rnd)
     IN  /\ settings' = r.settings
         /\ canSwap' = IF r.ok THEN FALSE ELSE canSwap
         /\ ret' = [Ret("swapTodayPrompt", r.ok, r.err) EXCEPT
                      !.prompt = r.prompt]
         /\ hist' = Swapped(hist, r)
  /\ UserActivity
  /\ UNCHANGED <<now, tzOffset, prompts, entries, streakSummary, nextEntryId,
                 appSettings, todayEntry, otherTab, isFirstLaunch, currentView,
                 lsAppStore>>
  /\ UNCHANGED telVars

\* TodayCard.handleSwapPrompt in a second tab whose TodayCard has just loaded
OtherTabSwap(rnd) ==
  /\ settings # {}
  /\ prompts # <<>>
  /\ canSwapToday(GetMain(settings).swapUsedDate)
  /\ LET r == swapTodayPrompt(GetMain(settings).installAt, rnd)
     IN  /\ settings' = r.settings
         /\ ret' = [Ret("otherTabSwap", r.ok, r.err) EXCEPT
                      !.prompt = r.prompt]
         /\ hist' = Swapped(hist, r)
  /\ UNCHANGED <<now, tzOffset, prompts, entries, streakSummary, nextEntryId,
                 appSettings, todayEntry, otherTab, canSwap, isFirstLaunch,
                 currentView, pinVars, lsAppStore>>
  /\ UNCHANGED telVars

\* NotificationSettings.handleSaveSettings, then
\* SettingsPage.handleSettingsUpdate
NotificationSave(isEnabled) ==
  /\ AppVisible
  /\ currentView = "settings"
  /\ LET updatedSettings == [GetMain(appSettings) EXCEPT
                               !.dailyCueEnabled = isEnabled]
     IN  /\ settings' = {updatedSettings}
         /\ appSettings' = {updatedSettings}
  /\ lsAppStore' = TRUE
  /\ ret' = Ret("handleSaveSettings", TRUE, "")
  /\ hist' = Other(hist)
  /\ UserActivity
  /\ UNCHANGED <<now, tzOffset, prompts, entries, streakSummary, nextEntryId,
                 todayEntry, otherTab, canSwap, isFirstLaunch, currentView>>
  /\ UNCHANGED telVars

\* SettingsPage.handleTelemetryToggle: telemetryService.optIn or optOut, run
\* to its end
TelemetryToggle(enabled) ==
  /\ AppVisible
  /\ currentView = "settings"
  /\ enabled => Len(telemetryService.eventQueue) < MaxQueue
  /\ LET m == Complete(IF enabled THEN optIn ELSE optOut, ServiceState)
     IN  /\ settings' = m.settings
         /\ Serviced(m)
         /\ ret' = [Ret("handleTelemetryToggle", TRUE, "")
                      EXCEPT !.call = IF enabled THEN "optIn" ELSE "optOut",
                             !.enqueued = m.enq]
         /\ hist' = Alive(Pushed(Other(hist), m.enq, m.settings), IdsOf(m))
  /\ UserActivity
  /\ UNCHANGED <<now, tzOffset, prompts, entries, streakSummary, nextEntryId,
                 appSettings, todayEntry, otherTab, canSwap, isFirstLaunch,
                 currentView, lsAppStore>>

\* a caller invokes a public operation of telemetryService, which runs to
\* its end
ApiCall(f) ==
  /\ Len(telemetryService.eventQueue) < MaxQueue
  /\ LET m == Complete(f, ServiceState)
     IN  /\ settings' = m.settings
         /\ Serviced(m)
         /\ ret' = [Ret("telemetryService", TRUE, "")
                      EXCEPT !.call = f.op, !.enqueued = m.enq]
         /\ hist' = Alive(Pushed(Other(hist), m.enq, m.settings), IdsOf(m))
  /\ UNCHANGED <<now, tzOffset, prompts, entries, streakSummary, nextEntryId,
                 appSettings, todayEntry, otherTab, canSwap, isFirstLaunch,
                 currentView, pinVars, lsAppStore>>

\* a caller invokes a public operation of telemetryService: the call runs
\* up to its first await
StartCall(f) ==
  /\ Len(calls.api) < MaxCalls
  /\ calls.started < MaxStarted
  /\ Len(telemetryService.eventQueue) < MaxQueue
  /\ calls' = [calls EXCEPT !.api = Append(@, f), !.started = @ + 1]
  /\ ret' = [Ret("telemetryService", TRUE, "") EXCEPT !.call = f.op]
  /\ hist' = hist
  /\ UNCHANGED <<now, tzOffset, dbVars, appSettings, todayEntry, otherTab,
                 canSwap, isFirstLaunch, currentView, pinVars, lsAppStore,
                 telemetryService, lsTelemetryQueue>>

\* the request the i-th call in flight waits for has been served: the call
\* goes on to its next await or to its end
CallStep(i) ==
  /\ i \in DOMAIN calls.api
  /\ LET r == Step(calls.api[i], ServiceState)
         api == IF r.f.pc = "done"
                THEN SubSeq(calls.api, 1, i - 1)
                       \o SubSeq(calls.api, i + 1, Len(calls.api))
                ELSE [calls.api EXCEPT ![i] = r.f]
     IN  /\ settings' = r.m.settings
         /\ telemetryService' = [eventQueue |-> r.m.eventQueue,
                                 processingQueue |-> r.m.processingQueue]
         /\ lsTelemetryQueue' = r.m.ls
         /\ calls' = [calls EXCEPT !.api = api, !.drain = r.m.drain]
         /\ ret' = [Ret("await", r.f.pc = "done", "")
                      EXCEPT !.call = calls.api[i].op, !.enqueued = r.m.enq]
         /\ hist' = Alive(Pushed(hist, r.m.enq, r.m.settings), IdsOf(r.m))
  /\ UNCHANGED <<now, tzOffset, prompts, entries, streakSummary, nextEntryId,
                 appSettings, todayEntry, otherTab, canSwap, isFirstLaunch,
                 currentView, pinVars, lsAppStore>>

\* the drain in progress goes on: the settings read of processQueue is
\* served, or the send of the event it waits for ends
ProcessQueue(success) ==
  /\ calls.drain.pc # "idle"
  /\ LET m == DrainStep(ServiceState, success)
     IN  /\ Serviced(m)
         /\ ret' = [Ret("processQueue", success, "")
                      EXCEPT !.call = calls.drain.pc, !.sent = SentBy(m),
                             !.retry = m.retry]
         /\ hist' = Drained(hist, calls.drain, m, success)
  /\ UNCHANGED <<now, tzOffset, dbVars, appSettings, todayEntry, otherTab,
                 canSwap, isFirstLaunch, currentView, pinVars, lsAppStore>>

\* the interval timer of startQueueProcessor fires and a drain starts
DrainTimer ==
  /\ telemetryService.eventQueue # <<>>
  /\ ~telemetryService.processingQueue
  /\ Serviced(StartDrain(ServiceState))
  /\ ret' = Ret("setInterval", TRUE, "")
  /\ hist' = hist
  /\ UNCHANGED <<now, tzOffset, dbVars, appSettings, todayEntry, otherTab,
                 canSwap, isFirstLaunch, currentView, pinVars, lsAppStore>>

\* a caller invokes promptUtils.initializeSeedPrompts: the call runs up to
\* its count request
SeedStart ==
  /\ Len(calls.seed) < MaxCalls
  /\ calls' = [calls EXCEPT !.seed = Append(@, "count")]
  /\ ret' = [Ret("initializeSeedPrompts", TRUE, "") EXCEPT !.call = "start"]
  /\ hist' = hist
  /\ UNCHANGED <<now, tzOffset, dbVars, appSettings, todayEntry, otherTab,
                 canSwap, isFirstLaunch, currentView, pinVars, lsAppStore,
                 telemetryService, lsTelemetryQueue>>

\* the request the i-th call of initializeSeedPrompts waits for has been
\* served: after the count the call returns or goes on to bulkAdd; the
\* bulkAdd adds the rows and is rejected if the table held one of their ids
SeedStep(i) ==
  /\ i \in DOMAIN calls.seed
  /\ LET pc == calls.seed[i]
         rest == SubSeq(calls.seed, 1, i - 1)
                   \o SubSeq(calls.seed, i + 1, Len(calls.seed))
         added == bulkAdd(prompts, SeedRows)
     IN  IF pc = "count"
         THEN /\ calls' = [calls EXCEPT
                             !.seed = IF existingSeeds(prompts) > 0 THEN rest
                                      ELSE [@ EXCEPT ![i] = "add"]]
              /\ prompts' = prompts
              /\ ret' = [Ret("initializeSeedPrompts", TRUE, "")
                           EXCEPT !.call = "count"]
         ELSE /\ calls' = [calls EXCEPT !.seed = rest]
              /\ prompts' = added
              /\ ret' = [Ret("initializeSeedPrompts",
                             Len(added) = Len(prompts) + Len(SeedRows),
                             IF Len(added) = Len(prompts) + Len(SeedRows)
                             THEN "" ELSE "BulkError")
                           EXCEPT !.call = "add"]
  /\ hist' = hist
  /\ UNCHANGED <<now, tzOffset, settings, entries, streakSummary, nextEntryId,
                 appSettings, todayEntry, otherTab, canSwap, isFirstLaunch,
                 currentView, pinVars, lsAppStore, telemetryService,
                 lsTelemetryQueue>>

\* ------------------------------------------------------------------ journal
\* db.entries.put(entry)
PutEntry(ents, entry) == {e \in ents : e.id # entry.id} \cup {entry}

\* the store writes of PromptEntry.handleSave for the in-memory todayEntry te
\* and the result of its updateStreak call
SaveWrites(te) ==
  LET today == getTodayLocal
      isEdit == te # {}
      entry == IF isEdit THEN GetMain(te)
               ELSE [id |-> nextEntryId + 1, dateLocal |-> today]
      ents == IF isEdit THEN PutEntry(entries, entry)
              ELSE entries \cup {entry}
  IN  [entry |-> entry, entries |-> ents, created |-> ~isEdit,
       streak |-> updateStreak(today, ents, streakSummary)]

\* a telemetry call whose exception reaches the outer catch block of
\* handleSave
telemetryErrorRethrown(threw) == threw

\* whether the exception of the telemetry call reaches the outer catch block
\* of handleSave, which reports the failed save: the catch block around the
\* call logs it and lets the save go on
telemetryErrorReported(threw) == FALSE

\* PromptEntry.handleSave, with what goes wrong in its telemetry call
HandleSaveWith(fault) ==
  /\ AppVisible
  /\ currentView = "journal"
  /\ Len(telemetryService.eventQueue) < MaxQueue
  /\ \A st \in streakSummary : st.current_streak < MaxStreak
  /\ LET w == SaveWrites(todayEntry)
         todayPrompt == getCurrentPrompt(InstallDateOf(appSettings), settings,
                                         prompts)
         m == IF w.streak.isFirstToday
              THEN Complete(sendDailyCompletionEvent,
                            [ServiceState EXCEPT !.fault = fault])
              ELSE ServiceState
         failed == telemetryErrorReported(m.threw)
     IN  /\ w.created => nextEntryId < MaxEntries
         /\ entries' = w.entries
         /\ nextEntryId' = IF w.created THEN nextEntryId + 1 ELSE nextEntryId
         /\ streakSummary' = w.streak.table
         /\ todayEntry' = {w.entry}
         /\ settings' = m.settings
         /\ Serviced(m)
         /\ ret' = [Ret("handleSave", ~failed,
                        IF failed THEN "save-failed" ELSE "")
                      EXCEPT !.isFirstToday = w.streak.isFirstToday,
                             !.threw = m.threw,
                             !.updated = w.streak.updated,
                             !.created = w.created,
                             !.prompt = todayPrompt.id,
                             !.call = IF w.streak.isFirstToday
                                      THEN "sendDailyCompletionEvent" ELSE "",
                             !.enqueued = m.enq]
         /\ hist' = Alive(Pushed(IF w.created
                                 THEN NewSave(hist, LocalDay(now))
                                 ELSE Other(hist), m.enq, m.settings),
                          IdsOf(m))
  /\ lsAppStore' = TRUE
  /\ UserActivity
  /\ UNCHANGED <<now, tzOffset, prompts, appSettings, otherTab,
                 canSwap, isFirstLaunch, currentView>>

\* PromptEntry.handleSave when nothing goes wrong in its telemetry call
HandleSave == HandleSaveWith("")

\* the tabs: 1 is the tab of the user, 2 the second tab
SaveTabs == {1, 2}

\* the in-memory todayEntry of tab t
TodayEntryOf(t) == IF t = 1 THEN todayEntry ELSE otherTab.todayEntry

\* tab t shows the form of the journal view
FormShown(t) ==
  IF t = 1 THEN AppVisible /\ currentView = "journal"
  ELSE otherTab.open /\ ~(IsPinEnabled(settings) /\ otherTab.isLocked)

\* PromptEntry.handleSave of tab t for a new entry, up to the end of its
\* db.entries.add request
SaveStart(t) ==
  /\ FormShown(t)
  /\ TodayEntryOf(t) = {}
  /\ calls.save[t] = IdleSave
  /\ \A r \in settings : ~r.telemetryOptIn
  /\ nextEntryId < MaxEntries
  /\ LET entry == [id |-> nextEntryId + 1, dateLocal |-> getTodayLocal]
     IN  /\ entries' = entries \cup {entry}
         /\ nextEntryId' = nextEntryId + 1
         /\ calls' = [calls EXCEPT !.save[t] =
                        [pc |-> 1, entry |-> {entry}, streak |-> {}]]
  /\ ret' = [Ret("saveStep", TRUE, "") EXCEPT !.call = "add",
                                              !.created = TRUE]
  /\ hist' = Other(hist)
  /\ UNCHANGED <<now, tzOffset, settings, prompts, streakSummary, appSettings,
                 todayEntry, otherTab, canSwap, isFirstLaunch, currentView,
                 pinVars, lsAppStore, telemetryService, lsTelemetryQueue>>

\* the next request of the dbUtils.updateStreak call of the handleSave of tab
\* t is served: the read of the summary row, the count of the entries of the
\* date, the put of the advanced row; then handleSave sets todayEntry
SaveStep(t) ==
  LET c == calls.save[t]
      entry == GetMain(c.entry)
      existingEntryToday ==
        Cardinality({e \in entries : e.dateLocal = entry.dateLocal})
      isFirstToday == existingEntryToday = 1
      newStreak == [AdvanceStreak(GetMain(c.streak), entry.dateLocal)
                      EXCEPT !.last_entry_date = entry.dateLocal]
      ends == c.pc = 3 \/ (c.pc = 2 /\ ~isFirstToday)
  IN  /\ c.pc \in {1, 2, 3}
      /\ streakSummary' =
           IF c.pc = 1 THEN initializeStreakSummary(streakSummary)
           ELSE IF c.pc = 3 THEN {newStreak}
           ELSE streakSummary
      /\ calls' = [calls EXCEPT !.save[t] =
                     IF ends THEN IdleSave
                     ELSE IF c.pc = 1
                     THEN [c EXCEPT !.pc = 2,
                                    !.streak =
                                      initializeStreakSummary(streakSummary)]
                     ELSE [c EXCEPT !.pc = 3]]
      /\ todayEntry' = IF ends /\ t = 1 THEN c.entry ELSE todayEntry
      /\ otherTab' = IF ends /\ t = 2
                     THEN [otherTab EXCEPT !.todayEntry = c.entry]
                     ELSE otherTab
      /\ ret' = [Ret("saveStep", TRUE, "") EXCEPT
                   !.call = IF c.pc = 1 THEN "get"
                            ELSE IF c.pc = 2 THEN "count" ELSE "put",
                   !.isFirstToday = (c.pc = 3),
                   !.updated = (c.pc = 3)]
      /\ hist' = Other(hist)
      /\ UNCHANGED <<now, tzOffset, settings, prompts, entries, nextEntryId,
                     appSettings, canSwap, isFirstLaunch, currentView,
                     pinVars, lsAppStore, telemetryService, lsTelemetryQueue>>

\* the application is opened in a second tab and brought to its journal
\* view: initializePinState and the auto-lock effect of that tab's
\* PinProvider, then the loadTodayPrompt effect of its PromptEntry unless the
\* lock screen is shown
OtherTabOpen ==
  /\ settings # {}
  /\ ~otherTab.open
  /\ LET pin == initializePinState
         eff == AutoLockEffect(settings, FALSE, lsSessionLocked)
         shown == ~(IsPinEnabled(settings) /\ eff.isLocked)
     IN  /\ otherTab' = [open |-> TRUE,
                         todayEntry |-> IF shown
                                        THEN FirstEntryOf(entries, getTodayLocal)
                                        ELSE {},
                         isLocked |-> eff.isLocked,
                         attemptCount |-> pin.attemptCount,
                         isTemporaryLocked |-> pin.isTemporaryLocked,
                         lockoutEndTime |-> pin.lockoutEndTime]
         /\ prompts' = IF shown THEN initializeSeedPrompts(prompts) ELSE prompts
         /\ lsPinAttempts' = pin.lsPinAttempts
         /\ lsPinLockoutEnd' = pin.lsPinLockoutEnd
         /\ lsLastActivity' = eff.lsLastActivity
  /\ ret' = Ret("otherTabOpen", TRUE, "")
  /\ hist' = hist
  /\ UNCHANGED <<now, tzOffset, settings, entries, streakSummary, nextEntryId,
                 appSettings, todayEntry, canSwap, isFirstLaunch, currentView,
                 isLocked, attemptCount, isTemporaryLocked, lockoutEndTime,
                 lsSessionLocked, lockTimerAt, lsAppStore>>
  /\ UNCHANGED telVars

\* the second tab is closed
OtherTabClose ==
  /\ otherTab.open
  /\ otherTab' = ClosedTab
  /\ ret' = Ret("otherTabClose", TRUE, "")
  /\ hist' = hist
  /\ UNCHANGED <<now, tzOffset, dbVars, appSettings, todayEntry, canSwap,
                 isFirstLaunch, currentView, pinVars, lsAppStore>>
  /\ UNCHANGED telVars

\* PromptEntry.handleSave in the second tab
OtherTabHandleSave ==
  /\ otherTab.open
  /\ settings # {}
  /\ \A r \in settings : ~r.telemetryOptIn
  /\ ~(IsPinEnabled(settings) /\ otherTab.isLocked)
  /\ \A st \in streakSummary : st.current_streak < MaxStreak
  /\ LET w == SaveWrites(otherTab.todayEntry)
     IN  /\ w.created => nextEntryId < MaxEntries
         /\ entries' = w.entries
         /\ nextEntryId' = IF w.created THEN nextEntryId + 1 ELSE nextEntryId
         /\ streakSummary' = w.streak.table
         /\ otherTab' = [otherTab EXCEPT !.todayEntry = {w.entry}]
         /\ ret' = [Ret("otherTabSave", TRUE, "")
                      EXCEPT !.isFirstToday = w.streak.isFirstToday,
                             !.updated = w.streak.updated,
                             !.created = w.created]
  /\ UNCHANGED <<now, tzOffset, settings, prompts, appSettings, todayEntry,
                 canSwap, isFirstLaunch, currentView, pinVars, lsAppStore>>
  /\ UNCHANGED telVars
  /\ hist' = Instant(Other(hist), StoreNow')

\* LockScreen.handleVerifyPin in the second tab; on success its PromptEntry
\* mounts
OtherTabVerifyPin(pin) ==
  /\ otherTab.open
  /\ IsPinEnabled(settings)
  /\ otherTab.isLocked
  /\ ~otherTab.isTemporaryLocked
  /\ isValidPin(pin)
  /\ LET r == verifyPin(pin, OtherPinState, settings)
     IN  /\ otherTab' = [otherTab EXCEPT
                           !.isLocked = r.isLocked,
                           !.attemptCount = r.attemptCount,
                           !.isTemporaryLocked = r.isTemporaryLocked,
                           !.lockoutEndTime = r.lockoutEndTime,
                           !.todayEntry =
                             IF r.ok /\ FirstEntryOf(entries, getTodayLocal) # {}
                             THEN FirstEntryOf(entries, getTodayLocal) ELSE @]
         /\ prompts' = IF r.ok THEN initializeSeedPrompts(prompts) ELSE prompts
         /\ lsPinAttempts' = r.lsPinAttempts
         /\ lsPinLockoutEnd' = r.lsPinLockoutEnd
         /\ lsSessionLocked' = r.lsSessionLocked
         /\ lsLastActivity' = now
         /\ ret' = [Ret("otherTabVerifyPin", r.ok, r.err) EXCEPT !.pin = pin]
         /\ hist' = Other(hist)
  /\ UNCHANGED <<now, tzOffset, settings, entries, streakSummary, nextEntryId,
                 appSettings, todayEntry, canSwap, isFirstLaunch, currentView,
                 isLocked, attemptCount, isTemporaryLocked, lockoutEndTime,
                 lockTimerAt, lsAppStore>>
  /\ UNCHANGED telVars

\* Last7DaysView.handleDelete
DeleteEntry(entry) ==
  /\ AppVisible
  /\ currentView = "last7days"
  /\ entry \in entries
  /\ entries' = entries \ {entry}
  /\ ret' = Ret("handleDelete", TRUE, "")
  /\ hist' = Other(hist)
  /\ UserActivity
  /\ UNCHANGED <<now, tzOffset, settings, prompts, streakSummary, nextEntryId,
                 appSettings, todayEntry, otherTab, canSwap, isFirstLaunch,
                 currentView, lsAppStore>>
  /\ UNCHANGED telVars

\* the requests of dbUtils.resetStreakData that may be rejected by the store:
\* none, the put of the backup into the settings row, the put of the reset
\* summary
ResetFaults == {"", "backup", "reset"}

\* the summary row dbUtils.resetStreakData writes
resetStreak ==
  [current_streak |-> 0, longest_streak |-> 0, last_entry_date |-> NoDate]

\* resetStreakData writing the reset summary before the backup
resetStreakDataResetsFirst(st, table, fault) ==
  LET backedUp == IF table # {} /\ st # {}
                  THEN {[GetMain(st) EXCEPT
                           !.lastPromptId = StreakBackup(GetMain(table))]}
                  ELSE st
  IN  IF fault = "reset"
      THEN [settings |-> st, streakSummary |-> table, ok |-> FALSE]
      ELSE IF fault = "backup" /\ table # {} /\ st # {}
      THEN [settings |-> st, streakSummary |-> {resetStreak}, ok |-> FALSE]
      ELSE [settings |-> backedUp, streakSummary |-> {resetStreak},
            ok |-> TRUE]

\* dbUtils.resetStreakData on the settings table st and the streakSummary
\* table: the tables it leaves and what it returns; a rejected put throws
\* into the catch block, which returns false
resetStreakData(st, table, fault) ==
  LET backedUp == IF table # {} /\ st # {}
                  THEN {[GetMain(st) EXCEPT
                           !.lastPromptId = StreakBackup(GetMain(table))]}
                  ELSE st
  IN  IF fault = "backup" /\ table # {} /\ st # {}
      THEN [settings |-> st, streakSummary |-> table, ok |-> FALSE]
      ELSE IF fault = "reset"
      THEN [settings |-> backedUp, streakSummary |-> table, ok |-> FALSE]
      ELSE [settings |-> backedUp, streakSummary |-> {resetStreak},
            ok |-> TRUE]

\* dbUtils.resetStreakData, called by StreaksPanel.handleResetStreak and by
\* SettingsPage.handleDataReset, with the request the store rejects
ResetStreakDataWith(fault) ==
  /\ AppVisible
  /\ currentView \in {"today", "settings"}
  /\ LET r == resetStreakData(settings, streakSummary, fault)
     IN  /\ settings' = r.settings
         /\ streakSummary' = r.streakSummary
         /\ ret' = [Ret("resetStreakData", r.ok,
                        IF r.ok THEN "" ELSE "reset-failed")
                      EXCEPT !.call = fault]
  /\ lsAppStore' = TRUE
  /\ hist' = Other(hist)
  /\ UserActivity
  /\ UNCHANGED <<now, tzOffset, prompts, entries, nextEntryId, appSettings,
                 todayEntry, otherTab, canSwap, isFirstLaunch, currentView>>
  /\ UNCHANGED telVars

\* dbUtils.resetStreakData when the store rejects nothing
ResetStreakData == ResetStreakDataWith("")

\* the summary rows the streakSummary table may be found to hold when it has
\* been written by something other than updateStreak: counts below zero, a
\* current_streak above the longest_streak, with or without a date
DamagedRows ==
  [current_streak : -1..MaxDamagedCount, longest_streak : -1..MaxDamagedCount,
   last_entry_date : {NoDate, getTodayLocal}]

\* the row db.streakSummary.get('main') hands to
\* validateAndRecoverStreakData is found to be row
StoreHolds(row) ==
  /\ streakSummary # {}
  /\ streakSummary # {row}
  /\ streakSummary' = {row}
  /\ ret' = Ret("storeHolds", TRUE, "")
  /\ hist' = Other(hist)
  /\ UNCHANGED <<now, tzOffset, settings, prompts, entries, nextEntryId,
                 appSettings, todayEntry, otherTab, canSwap, isFirstLaunch,
                 currentView, pinVars, lsAppStore>>
  /\ UNCHANGED telVars

\* ------------------------------------------------------ streak properties
SaveOps == {"handleSave", "otherTabSave"}

\* C1: from an empty store, after a new entry has been saved on each of N
\* consecutive calendar days, current_streak = N and longest_streak = N
C1_ConsecutiveDaysCount ==
  (ret.op = "handleSave" /\ ret.created /\ hist.onlyNewSaves)
    => \A st \in streakSummary :
         st.current_streak = hist.saveRun /\ st.longest_streak = hist.saveRun

\* C2: when the first entry of day D is saved and last_entry_date is two or
\* more days before D, current_streak becomes 1 and longest_streak is unchanged
C2_GapResets ==
  [][(/\ ret'.op \in SaveOps
      /\ ret'.isFirstToday
      /\ streakSummary # {}
      /\ GetMain(streakSummary).last_entry_date # NoDate
      /\ GetMain(streakSummary).last_entry_date <= getTodayLocal - 2)
       => /\ GetMain(streakSummary').current_streak = 1
          /\ GetMain(streakSummary').longest_streak
               = GetMain(streakSummary).longest_streak]_vars

\* C3: when an entry for day D already exists, saving another new entry for D
\* leaves current_streak, longest_streak and last_entry_date unchanged and
\* returns isFirstToday = false
C3_SecondEntrySameDay ==
  [][(/\ ret'.op \in SaveOps
      /\ ret'.created
      /\ \E e \in entries : e.dateLocal = getTodayLocal)
       => /\ streakSummary' = streakSummary
          /\ ~ret'.isFirstToday]_vars

C3_Witness ==
  /\ ret.op \in SaveOps
  /\ ret.created
  /\ ~ret.isFirstToday
  /\ Cardinality({e \in entries : e.dateLocal = getTodayLocal}) >= 2
  /\ \E st \in streakSummary : st.current_streak >= 1

\* C4: every reachable streak row satisfies
\* 0 <= current_streak <= longest_streak
C4_StreakBounds ==
  \A st \in streakSummary :
    0 <= st.current_streak /\ st.current_streak <= st.longest_streak

C4_Witness ==
  /\ ret.op \in SaveOps
  /\ ret.updated
  /\ \E st \in streakSummary :
       st.current_streak >= 2 /\ st.longest_streak = st.current_streak


\* ------------------------------------------------------ prompt properties
SwapOps == {"swapTodayPrompt", "otherTabSwap"}

\* C5: after a successful swap on day D, every later swapTodayPrompt call on
\* D is rejected and leaves the settings row unchanged, whatever settings
\* writers run in between
C5_OneSwapPerDay ==
  [][(ret'.op \in SwapOps /\ hist.swapDay = getTodayString)
       => (~ret'.ok /\ settings' = settings)]_vars

\* C6: after a successful swap on day D, every getCurrentPrompt later on D
\* returns the swapped-to prompt while its row exists
C6_SwappedPromptShown ==
  (/\ ret.op \notin SwapOps
   /\ ret.prompt # NoId
   /\ hist.swapDay = getTodayString
   /\ \E i \in 1..Len(prompts) : prompts[i].id = hist.swappedTo)
    => ret.prompt = hist.swappedTo

\* C7: a successful swapTodayPrompt returns an active seed prompt that is
\* neither today's default prompt nor the prior lastPromptId, and persists
\* swapUsedDate = lastPromptDate = today and lastPromptId = the returned id
C7_SwapResult ==
  [][(ret'.op \in SwapOps /\ ret'.ok)
       => /\ \E i \in 1..Len(prompts) :
               prompts[i].id = ret'.prompt /\ IsActiveSeed(prompts[i])
          /\ ret'.prompt
               # getTodayPrompt(GetMain(settings).installAt, prompts).id
          /\ ret'.prompt # GetMain(settings).lastPromptId
          /\ GetMain(settings').swapUsedDate = getTodayString
          /\ GetMain(settings').lastPromptDate = getTodayString
          /\ GetMain(settings').lastPromptId = ret'.prompt]_vars

C7_Witness ==
  /\ ret.op = "swapTodayPrompt"
  /\ ret.ok
  /\ LocalDay(now) > LocalDay(FirstLaunch)
  /\ GetMain(settings).lastPromptId = ret.prompt
  /\ GetMain(settings).swapUsedDate = getTodayString

\* --------------------------------------------------------- PIN properties
VerifyOps == {"verifyPin", "disablePin"}

\* the pin is not the configured one
WrongPin(pin) ==
  ~cryptoVerifyPin(pin, [hash |-> GetMain(appSettings).pinHash,
                         salt |-> GetMain(appSettings).pinSalt,
                         iterations |-> GetMain(appSettings).pinIterations])

\* C8: with a PIN configured and no lockout active, a wrong well-formed PIN
\* fails and increments the failed-attempt counter by one; the fifth
\* consecutive wrong PIN starts a lockout ending at now + 5 minutes; a
\* successful verification sets the counter to 0 and removes the persisted
\* counter and lockout end
C8_AttemptCounting ==
  [][(/\ ret'.op \in VerifyOps
      /\ IsPinEnabled(appSettings)
      /\ ~isTemporaryLocked)
       => /\ (isValidPin(ret'.pin) /\ WrongPin(ret'.pin))
               => /\ ~ret'.ok
                  /\ attemptCount' = attemptCount + 1
                  /\ hist.wrongRun = 4
                       => /\ isTemporaryLocked'
                          /\ lockoutEndTime' = now + LOCKOUT_DURATION
                          /\ lsPinLockoutEnd' = now + LOCKOUT_DURATION
          /\ ret'.ok
               => /\ attemptCount' = 0
                  /\ lsPinAttempts' = NoDate
                  /\ lsPinLockoutEnd' = NoDate]_vars

C8_Witness ==
  /\ ret.op \in VerifyOps
  /\ ~ret.ok
  /\ ret.err = "tooMany"
  /\ attemptCount = 5
  /\ isTemporaryLocked
  /\ lockoutEndTime = now + LOCKOUT_DURATION

\* C9: once a lockout has started with end time E, at every time before E,
\* reloads included, the state is TemporarilyLockedOut and verifyPin is
\* rejected
C9_LockoutPersists ==
  (hist.lockoutE # NoDate /\ now < hist.lockoutE)
    => /\ isTemporaryLocked
       /\ ret.op \in VerifyOps => ~ret.ok

\* C10: while TemporarilyLockedOut, verifyPin with any PIN, the correct one
\* included, returns the lockout error and changes nothing
C10_LockedOutRejects ==
  [][(ret'.op \in VerifyOps /\ isTemporaryLocked)
       => /\ ~ret'.ok
          /\ ret'.err = "temporarilyLocked"
          /\ UNCHANGED <<isLocked, attemptCount, isTemporaryLocked,
                         lockoutEndTime, lsPinAttempts, lsPinLockoutEnd,
                         lsSessionLocked, settings, appSettings>>]_vars

C10_Witness ==
  /\ ret.op = "disablePin"
  /\ ret.err = "temporarilyLocked"
  /\ IsPinEnabled(appSettings)
  /\ ~WrongPin(ret.pin)
  /\ isTemporaryLocked
  /\ now < lockoutEndTime

C12_UnlockOnlyByPin ==
  [][(IsPinEnabled(appSettings) /\ isLocked /\ ~isLocked')
       => \/ ret'.op = "verifyPin" /\ ret'.ok
          \/ ret'.op = "resetWithWipe"]_vars

\* C13: disablePin removes pinHash, pinSalt and pinIterations only when the
\* verification of the given PIN succeeds; when it fails (wrong PIN,
\* malformed PIN, lockout, no PIN configured) the settings row is unchanged
\* and PIN protection stays as it was
C13_DisableNeedsPin ==
  [][ret'.op = "disablePin"
       => /\ ret'.ok <=> /\ ~isTemporaryLocked
                         /\ isValidPin(ret'.pin)
                         /\ IsPinEnabled(appSettings)
                         /\ ~WrongPin(ret'.pin)
          /\ ret'.ok => /\ ~HasPinHash(settings')
                        /\ GetMain(settings').pinSalt = 0
                        /\ GetMain(settings').pinIterations = 0
          /\ ~ret'.ok => /\ settings' = settings
                         /\ appSettings' = appSettings
                         /\ IsPinEnabled(appSettings')
                               = IsPinEnabled(appSettings)]_vars

C13_Witness ==
  /\ ret.op = "disablePin"
  /\ ~ret.ok
  /\ ret.err = "format"
  /\ IsPinEnabled(settings)
  /\ IsPinEnabled(appSettings)
  /\ attemptCount = 0

\* ---------------------------------------------------------- wipe properties
WipeOps == {"resetWithWipe", "deleteAllData"}

C15_NoWipeWithOtherTab ==
  [][(ret'.op \in WipeOps /\ OtherTabShown /\ ret'.channel)
       => /\ ~ret'.ok
          /\ UNCHANGED <<settings, prompts, entries, streakSummary,
                         lsPinAttempts, lsPinLockoutEnd, lsSessionLocked,
                         lsAppStore>>]_vars

\* C16: the JSON exportDataWithProgress produces never holds a pinHash,
\* pinSalt or pinIterations property, whatever the store holds, a configured
\* PIN included
C16_ExportHasNoPin ==
  ret.op = "handleDataExport" => ret.json \cap PinFields = {}

\* an export of a store with a PIN configured and an entry written: the
\* other settings are in the text
C16_Witness ==
  /\ ret.op = "handleDataExport"
  /\ IsPinEnabled(settings)
  /\ PinFields \subseteq SettingsObject(GetMain(settings)).keys
  /\ entries # {}
  /\ {"lockTimeoutMinutes", "installAt", "dateLocal"} \subseteq ret.json

\* ----------------------------------------------------- telemetry properties
\* the store holds the opt-in
OptedIn(table) == \E r \in table : r.telemetryOptIn

\* the settings row holds nothing of telemetry and no event is queued
FreshTelemetry ==
  /\ settings # {}
  /\ getTelemetrySettings(settings) = getTelemetrySettings({NewSettings})
  /\ telemetryService.eventQueue = <<>>
  /\ lsTelemetryQueue = <<>>

SendCalls ==
  {"sendActivationEvent", "sendDailyCompletionEvent", "sendD7CompletionEvent"}

\* C17: opting in from a fresh install enqueues exactly one activation
\* event; optOut leaves the queue empty in memory and in storage, events that
\* were not delivered included; while opted out no call of
\* sendActivationEvent, sendDailyCompletionEvent or sendD7CompletionEvent
\* adds an event and a drain leaves the queue empty
C17_OptInOptOut ==
  [][/\ (ret'.call = "optIn" /\ FreshTelemetry)
          => /\ ret'.enqueued = <<"activation">>
             /\ Len(telemetryService'.eventQueue) = 1
             /\ telemetryService'.eventQueue[1].eventType = "activation"
             /\ lsTelemetryQueue' = telemetryService'.eventQueue
     /\ ret'.call = "optOut"
          => /\ telemetryService'.eventQueue = <<>>
             /\ lsTelemetryQueue' = <<>>
     /\ (ret'.call \in SendCalls /\ ~OptedIn(settings))
          => /\ ret'.enqueued = <<>>
             /\ telemetryService'.eventQueue = telemetryService.eventQueue
             /\ lsTelemetryQueue' = lsTelemetryQueue
     /\ (ret'.op = "processQueue" /\ ~OptedIn(settings))
          => /\ telemetryService'.eventQueue = <<>>
             /\ lsTelemetryQueue' = <<>>]_vars

\* optOut has emptied the queue while the drain was still sending the
\* activation event
C17_Witness ==
  /\ ret.call = "optOut"
  /\ hist.activations = 1
  /\ calls.drain.pc = "pq_send"
  /\ calls.drain.events[calls.drain.i].eventType = "activation"
  /\ telemetryService.eventQueue = <<>>
  /\ lsTelemetryQueue = <<>>
  /\ ~OptedIn(settings)

\* C18: over any sequence of optIn and optOut calls the activation event is
\* enqueued once, on the first opt-in only: not again by an opt-in after an
\* opt-out, and at most once by repeated or overlapping optIn calls
C18_ActivationOnce == hist.activations <= 1

\* C19: while opted in, at most one d7_completion event is ever enqueued:
\* when the consecutive-day count first reaches 7, not on a later
\* consecutive day, and not when a later run of days after a gap reaches 7
C19_OneD7 == hist.d7s <= 1

\* C20: while opted in, at most one daily_completion event is enqueued per
\* calendar day, and only by the save that creates the first entry of that
\* day: not by the save of an edit and not by a second entry of the day
C20_DailyOncePerDay ==
  [][(/\ ret'.op = "handleSave"
      /\ \E i \in DOMAIN ret'.enqueued : ret'.enqueued[i] = "daily_completion")
       => /\ ret'.created
          /\ \A e \in entries : e.dateLocal # LocalDay(now)
          /\ hist.dailyDay # LocalDay(now)]_vars

\* C21: events are sent in the order they were enqueued and a failed send
\* stops the drain: when processQueue makes the request for an event, no
\* event enqueued before it is still in the queue, that is, the event is the
\* first of the queue if the queue holds it
C21_SentInOrder ==
  [][\A e \in Range(ret'.sent) :
       \A k \in DOMAIN telemetryService'.eventQueue :
         telemetryService'.eventQueue[k].id = e.id => k = 1]_vars

\* C21: a send has failed with a second event behind the first: the drain
\* has ended, the first event has one retry and no request was made for the
\* second
C21_Witness ==
  /\ ret.op = "processQueue" /\ ret.call = "pq_send" /\ ~ret.ok
  /\ ret.sent = <<>>
  /\ calls.drain = IdleDrain
  /\ Len(telemetryService.eventQueue) = 2
  /\ telemetryService.eventQueue[1].retryCount = 1
  /\ hist.sends[telemetryService.eventQueue[1].id] = 1
  /\ hist.sends[telemetryService.eventQueue[2].id] = 0

\* the event with the id in the queue q, as a set
EventOf(q, id) == {e \in Range(q) : e.id = id}

\* C22: every event is sent at most MAX_RETRY_ATTEMPTS times; a failed send
\* of an event the queue holds raises its retry count by one and schedules
\* one retry after RETRY_DELAYS[min(retryCount - 1, 4)]; no request is made
\* for an event whose retry count has reached MAX_RETRY_ATTEMPTS, which the
\* drain removes from the queue
C22_AtMostFiveSends ==
  [][/\ \A id \in DOMAIN hist'.sends : hist'.sends[id] <= MAX_RETRY_ATTEMPTS
     /\ (ret'.op = "processQueue" /\ ret'.call = "pq_send" /\ ~ret'.ok) =>
          LET id == calls.drain.events[calls.drain.i].id IN
          \A e \in EventOf(telemetryService.eventQueue, id) :
            /\ EventOf(telemetryService'.eventQueue, id)
                 = {[e EXCEPT !.retryCount = @ + 1]}
            /\ ret'.retry
                 = <<RETRY_DELAYS[Min(e.retryCount, Len(RETRY_DELAYS) - 1) + 1]>>
     /\ \A e \in Range(ret'.sent) : e.retryCount < MAX_RETRY_ATTEMPTS
     /\ (ret'.op = "processQueue" /\ calls'.drain = IdleDrain) =>
          \A e \in Range(telemetryService'.eventQueue) :
            e.retryCount >= MAX_RETRY_ATTEMPTS =>
              \E k \in calls.drain.i..Len(calls.drain.events) :
                /\ calls.drain.pc = "pq_send"
                /\ calls.drain.events[k].id = e.id]_vars

\* the ids the events of the service can have: FreshIn takes the smallest
\* id that no event of the queue, of the persisted queue or of the drain in
\* progress has
EventIdSpace == 1..(2 * MaxQueue + 2)

\* the queue holds the event with the id
Queued(id) == EventOf(telemetryService.eventQueue, id) # {}

C24_SentOnce ==
  [][/\ (ret'.op = "processQueue" /\ ret'.call = "pq_send" /\ ret'.ok)
          => ~\E e \in Range(telemetryService'.eventQueue) :
                e.id = calls.drain.events[calls.drain.i].id
     /\ \A e \in Range(ret'.sent) : e.id \notin hist.delivered]_vars

\* C25: after optOut has completed and until the next optIn (the settings
\* row is opted out between the two) processQueue makes no request and
\* schedules no retry, also when a drain was in progress at the opt-out
C25_NoSendAfterOptOut ==
  [][(ret'.sent # <<>> \/ ret'.retry # <<>>) => OptedIn(settings')]_vars

\* C26: after optOut the settings row holds no anonymous id, no date of a
\* last completion and cleared counters
C26_OptOutClearsId ==
  (ret.op = "handleTelemetryToggle" /\ ret.call = "optOut") =>
    \A r \in settings :
      /\ r.telemetryAnonId = NoAnonId
      /\ r.telemetryLastCompletionDate = NoDate
      /\ r.telemetryConsecutiveDays = 0
      /\ ~r.telemetryActivationSent
      /\ ~r.telemetryD7EventSent

\* C27: whatever goes wrong in the telemetry call of handleSave (the
\* requests to the settings table are rejected, the call throws) and whatever
\* the outcome of the sends, handleSave ends with the entry in the entries
\* table and the streak updated for it, and does not report a failed save
C27_SaveSurvivesTelemetry ==
  [][ret'.op = "handleSave" =>
       /\ ret'.ok /\ ret'.err = ""
       /\ todayEntry' # {} /\ todayEntry' \subseteq entries'
       /\ \A e \in todayEntry' : e.dateLocal = getTodayLocal \/ ~ret'.created
       /\ streakSummary'
            = updateStreak(getTodayLocal, entries', streakSummary).table]_vars

\* C27: the telemetry call of a save has thrown, the save has created the
\* entry and has not failed
C27_Witness ==
  /\ ret.op = "handleSave" /\ ret.threw /\ ret.ok /\ ret.created
  /\ ret.isFirstToday
  /\ todayEntry # {} /\ todayEntry \subseteq entries
  /\ telemetryService.eventQueue # <<>>

\* C28: for the install date and the calendar day of a state, the default
\* prompt resolved from the prompts table that holds the seed catalog and the
\* prompt of the in-memory fallback have the same id
C28_FallbackSamePrompt ==
  (settings # {} /\ ~TodayPromptThrows(prompts)) =>
    getTodayPrompt(InstallDateOf(settings), prompts).id
      = getFallbackPrompt(InstallDateOf(settings)).id

\* C29: after calls of initializeSeedPrompts, one after the other or
\* overlapping, the prompts table holds each of the ids seed-1 .. seed-10
\* exactly once; a step of a call that finds a seed row in the table writes
\* nothing
C29_SeedsOnce ==
  [][/\ prompts' # <<>> =>
          \A n \in 1..SeedCount :
            Cardinality({i \in DOMAIN prompts' : prompts'[i].id = SeedId(n)})
              = 1
     /\ (ret'.op = "initializeSeedPrompts" /\ existingSeeds(prompts) > 0)
          => prompts' = prompts]_vars

\* C29: two calls have overlapped: the bulkAdd of the second was rejected
\* and the table holds the ten seed rows
C29_Witness ==
  /\ ret.op = "initializeSeedPrompts" /\ ret.call = "add" /\ ~ret.ok
  /\ Len(prompts) = SeedCount
  /\ \A n \in 1..SeedCount : \E i \in DOMAIN prompts : prompts[i].id = SeedId(n)

\* C30: the tables exportDataWithProgress exports are the contents of the
\* store at one instant between the start and the end of the export, also
\* when a save interleaves with the export
C30_ExportSnapshot ==
  [][ret'.snapshot # <<>> => ret'.snapshot \in hist.instants]_vars

\* the operations that may clear the streak summary
ClearOps == {"resetStreakData", "resetWithWipe", "deleteAllData"}

C32_RecoveryRepairs ==
  [][ret'.call = "validateAndRecoverStreakData" =>
       \A s \in streakSummary :
         (s.current_streak < 0 \/ s.longest_streak < 0
            \/ s.current_streak > s.longest_streak) =>
           /\ streakSummary' =
                {[current_streak |->
                    Max(0, Min(s.current_streak, s.longest_streak)),
                  longest_streak |->
                    Max(0, Max(s.longest_streak, s.current_streak)),
                  last_entry_date |-> s.last_entry_date]}
           /\ ret'.validation.recovered
           /\ ~ret'.validation.isValid
           /\ \A t \in streakSummary' :
                0 <= t.current_streak /\ t.current_streak <= t.longest_streak
           /\ validationResult(streakSummary').isValid
           /\ ~validationResult(streakSummary').wrote
           /\ validateAndRecoverStreakData(streakSummary') = streakSummary'
    ]_vars

\* the Today view has mounted over a row whose current_streak was above its
\* longest_streak and has repaired it
C32_Witness ==
  /\ ret.call = "validateAndRecoverStreakData"
  /\ ret.validation.recovered
  /\ \E s \in streakSummary :
       /\ s.current_streak = 1
       /\ s.longest_streak = MaxDamagedCount
       /\ s.last_entry_date # NoDate

\* C33: resetStreakData leaves the summary with current_streak = 0,
\* longest_streak = 0 and no last_entry_date, and it overwrites the summary
\* only after the backup of the prior summary has been written: when the
\* write of the backup fails it returns false and the summary is unchanged
C33_ResetAfterBackup ==
  [][ret'.op = "resetStreakData" =>
       /\ ret'.ok => streakSummary' = {resetStreak}
       /\ (streakSummary' # streakSummary /\ streakSummary # {}) =>
            \E r \in settings' :
              r.lastPromptId = StreakBackup(GetMain(streakSummary))
       /\ ret'.call = "backup" =>
            ~ret'.ok /\ streakSummary' = streakSummary /\ settings' = settings
    ]_vars

\* a reset whose backup write was rejected, on a summary that held a streak
C33_Witness ==
  /\ ret.op = "resetStreakData"
  /\ ret.call = "backup"
  /\ ~ret.ok
  /\ \E s \in streakSummary : s.current_streak >= 1

\* C34: when the application starts with a PIN configured and more than
\* lockTimeoutMinutes have passed since the recorded last activity, or no last
\* activity is recorded, the session starts locked
C34_StartsLocked ==
  [][(/\ ret'.op = "reload"
      /\ IsPinEnabled(settings)
      /\ \/ lsLastActivity = NoDate
         \/ now - lsLastActivity > TimeoutOf(settings))
       => isLocked']_vars

\* C35: when last_entry_date already equals the date D of the save and
\* updateStreak takes the saved entry for the first entry of D (the day's
\* only entry was deleted and a new one created, or the day's entry was
\* edited), current_streak and longest_streak are unchanged and
\* last_entry_date stays D
C35_AlreadyCounted ==
  [][(/\ ret'.op \in SaveOps
      /\ ret'.isFirstToday
      /\ \E s \in streakSummary : s.last_entry_date = getTodayLocal)
       => streakSummary' = streakSummary]_vars

\* C36: a save on the calendar day D when the store holds no entry with
\* dateLocal = D inserts a new entry with dateLocal = D and changes no entry
\* of another date, also when the application has stayed open since a save
\* made on an earlier day
C36_NewDayNewEntry ==
  [][(/\ ret'.op = "handleSave"
      /\ \A e \in entries : e.dateLocal # getTodayLocal)
       => /\ ret'.created
          /\ entries \subseteq entries'
          /\ \E e \in entries' \ entries : e.dateLocal = getTodayLocal]_vars

\* both tabs have saved a new entry of the date d and neither save is in
\* progress
BothSaved(d) ==
  /\ calls.save = <<IdleSave, IdleSave>>
  /\ todayEntry # {}
  /\ otherTab.todayEntry # {}
  /\ todayEntry # otherTab.todayEntry
  /\ \A e \in todayEntry \cup otherTab.todayEntry : e.dateLocal = d

\* C37: when two tabs each save a new entry for the same calendar date D that
\* had no entry before, with their insert and updateStreak requests
\* interleaved in any order, the streak is advanced for D exactly once: the
\* summary is dated D once both saves have ended, and no save advances a
\* summary that is dated D already
C37_AdvancedOnce ==
  /\ [](\A d \in {e.dateLocal : e \in entries} :
          BothSaved(d) => \E s \in streakSummary : s.last_entry_date = d)
  /\ [][(ret'.op = "saveStep" /\ ret'.updated) =>
          \A s \in streakSummary : s.last_entry_date # getTodayLocal]_vars

\* C38: when exactly one instance of the application is open, deleteAllData
\* is not refused by the other-instance check: the ping responder of the
\* instance's own page does not count as another instance
C38_OwnPageIsNoOtherTab ==
  [][(ret'.op = "deleteAllData" /\ ~otherTab.open)
       => ret'.err # "closeOtherTabs"]_vars

\* the queue holds the event with the id and the drain in progress, which
\* waits for a send, has not taken it into its copy of the queue: the event
\* has been enqueued while the drain was in progress
EnqueuedDuringDrain(id) ==
  /\ calls.drain.pc = "pq_send"
  /\ Queued(id)
  /\ \A k \in DOMAIN calls.drain.events : calls.drain.events[k].id # id

\* a request is being made for the event with the id
Sending(id) == \E e \in Range(ret.sent) : e.id = id

\* C39: an event enqueued while a drain is in progress is not lost: while
\* the user stays opted in, every step of that drain leaves it in the queue,
\* the end of the drain writes it to the persisted queue, and a later drain
\* sends it
C39_EnqueuedDuringDrainKept ==
  /\ [][(ret'.op = "processQueue" /\ OptedIn(settings')) =>
          \A id \in EventIdSpace :
            EnqueuedDuringDrain(id) =>
              /\ EventOf(telemetryService'.eventQueue, id)
                   = EventOf(telemetryService.eventQueue, id)
              /\ calls'.drain = IdleDrain =>
                   EventOf(lsTelemetryQueue', id)
                     = EventOf(telemetryService.eventQueue, id)]_vars
  /\ \A id \in EventIdSpace :
       EnqueuedDuringDrain(id) ~> (Sending(id) \/ ~OptedIn(settings))

\* a drain has ended with a successful send of the last event of its copy,
\* and the queue and the persisted queue hold an event that was enqueued
\* while it was in progress
C39_Witness ==
  /\ ret.op = "processQueue" /\ ret.call = "pq_send" /\ ret.ok
  /\ calls.drain = IdleDrain
  /\ OptedIn(settings)
  /\ telemetryService.eventQueue # <<>>
  /\ lsTelemetryQueue = telemetryService.eventQueue

\* C40: getTodayLocal returns the device-local calendar date of the current
\* instant for every instant and every timezone offset, so the dateLocal
\* that a save stores on a new entry is the day after the yesterdayLocal
\* that updateStreak computes at the same instant
C40_TodayIsLocalDate ==
  [][(ret'.op = "handleSave" /\ ret'.created) =>
       /\ getTodayLocal' = LocalDay(now')
       /\ \A e \in entries' \ entries :
            /\ e.dateLocal = LocalDay(now')
            /\ e.dateLocal = yesterdayLocal' + 1]_vars

\* ---------------------------------------------------------- specification
Next ==
  \/ CompleteOnboarding(FALSE, UserPin, 1)
  \/ \E step \in ClockSteps : Tick(step, MaxNow)
  \/ Reload
  \/ \E v \in Views \ {"settings"} : Navigate(v)
  \/ HandleSave
  \/ \E e \in entries : DeleteEntry(e)
  \/ ResetStreakData

Spec == Init /\ [][Next]_vars

\* the journal open in two tabs
NextTabs ==
  \/ CompleteOnboarding(FALSE, UserPin, 1)
  \/ \E step \in ClockSteps : Tick(step, MaxNow)
  \/ Reload
  \/ \E v \in Views \ {"settings"} : Navigate(v)
  \/ HandleSave
  \/ OtherTabOpen
  \/ OtherTabHandleSave
  \/ ResetStreakData

SpecTabs == Init /\ [][NextTabs]_vars

\* the daily prompt, its swap and the writers of the settings row
NextPrompt ==
  \/ CompleteOnboarding(FALSE, UserPin, 1)
  \/ \E step \in ClockSteps : Tick(step, MaxPromptNow)
  \/ Reload
  \/ \E v \in {"today", "settings"} : Navigate(v)
  \/ \E rnd \in RandomTenths : SwapTodayPrompt(rnd)
  \/ \E rnd \in RandomTenths : OtherTabSwap(rnd)
  \/ NotificationSave(TRUE)
  \/ ResetStreakData
  \/ SetupPin(UserPin, 1)
  \/ DisablePin(UserPin)
  \/ VerifyPin(UserPin)
  \/ \E m \in LockTimeouts : UpdateLockTimeout(m)

SpecPrompt == Init /\ [][NextPrompt]_vars

\* the PIN session lock
NextPin ==
  \/ \E salt \in Salts : CompleteOnboarding(TRUE, UserPin, salt)
  \/ Tick(1, MaxPinNow)
  \/ Reload
  \/ \E v \in {"today", "settings"} : Navigate(v)
  \/ \E pin \in PinInputs : VerifyPin(pin)
  \/ \E pin \in PinInputs : DisablePin(pin)
  \/ \E salt \in Salts : SetupPin(UserPin, salt)
  \/ \E m \in LockTimeouts : UpdateLockTimeout(m)
  \/ TabHidden
  \/ ResetWithWipe

\* the session lock reads no calendar date: one timezone is enough
InitPin == Init /\ tzOffset = 0

SpecPin == InitPin /\ [][NextPin]_vars

\* the PIN session lock with the lock and unlock operations of the PIN
\* context
NextPinContext ==
  \/ \E salt \in Salts : CompleteOnboarding(TRUE, UserPin, salt)
  \/ Tick(1, MaxPinContextNow)
  \/ Reload
  \/ \E v \in {"today", "settings"} : Navigate(v)
  \/ \E pin \in PinInputs : VerifyPin(pin)
  \/ \E pin \in PinInputs : DisablePin(pin)
  \/ \E salt \in Salts : SetupPin(UserPin, salt)
  \/ \E m \in LockTimeouts : UpdateLockTimeout(m)
  \/ TabHidden
  \/ ResetWithWipe
  \/ Lock
  \/ Unlock
  \/ \E pin \in PinInputs : ContextDisablePin(pin)

SpecPinContext == InitPin /\ [][NextPinContext]_vars

\* the wipe paths, with entries in the journal and a second tab
NextWipe ==
  \/ \E withPin \in BOOLEAN : CompleteOnboarding(withPin, UserPin, 1)
  \/ Reload
  \/ \E v \in Views : Navigate(v)
  \/ HandleSave
  \/ TabHidden
  \/ \E pin \in PinInputs : VerifyPin(pin)
  \/ OtherTabOpen
  \/ OtherTabClose
  \/ ResetWithWipe
  \/ \E failAt \in WipeFailures : ResetWithWipeFails(failAt)
  \/ \E channel \in ChannelSupport, failAt \in WipeFailures :
       DeleteAllData(channel, failAt)
  \/ HandleDataExport

SpecWipe == InitPin /\ [][NextWipe]_vars

\* the PIN session lock with the application open in two tabs
NextPinTabs ==
  \/ \E salt \in Salts : CompleteOnboarding(TRUE, UserPin, salt)
  \/ Tick(1, MaxPinTabsNow)
  \/ Reload
  \/ \E pin \in PinInputs : VerifyPin(pin)
  \/ TabHidden
  \/ OtherTabOpen
  \/ OtherTabClose
  \/ \E pin \in PinInputs : OtherTabVerifyPin(pin)

SpecPinTabs == InitPin /\ [][NextPinTabs]_vars

\* the telemetry service under the settings page and its own public
\* operations, each call run to its end, with the drain in steps
NextTelemetry ==
  \/ CompleteOnboarding(FALSE, UserPin, 1)
  \/ Reload
  \/ Navigate("settings")
  \/ \E enabled \in BOOLEAN : TelemetryToggle(enabled)
  \/ \E f \in {sendActivationEvent, sendDailyCompletionEvent,
               sendD7CompletionEvent} : ApiCall(f)
  \/ \E success \in BOOLEAN : ProcessQueue(success)
  \/ DrainTimer

SpecTelemetry == InitPin /\ [][NextTelemetry]_vars

\* the public operations optIn and optOut of the telemetry service called
\* at any time, each call and the drain going on await by await
NextTelemetryCalls ==
  \/ CompleteOnboarding(FALSE, UserPin, 1)
  \/ \E f \in {optIn, optOut} : StartCall(f)
  \/ \E i \in 1..MaxCalls : CallStep(i)
  \/ ProcessQueue(TRUE)
  \/ DrainTimer

SpecTelemetryCalls == InitPin /\ [][NextTelemetryCalls]_vars

\* the daily completions of an opted-in installation over the days, the
\* events delivered
NextTelemetryDays ==
  \/ CompleteOnboarding(FALSE, UserPin, 1)
  \/ Tick(MinutesPerDay, MaxTelemetryDays * MinutesPerDay)
  \/ Navigate("settings")
  \/ TelemetryToggle(TRUE)
  \/ ApiCall(sendDailyCompletionEvent)
  \/ ProcessQueue(TRUE)
  \/ DrainTimer

SpecTelemetryDays == InitPin /\ [][NextTelemetryDays]_vars

\* the journal of an installation that opts in and out of telemetry, the
\* events delivered
NextTelemetrySave ==
  \/ CompleteOnboarding(FALSE, UserPin, 1)
  \/ \E step \in ClockSteps : Tick(step, MaxTelemetryNow)
  \/ \E v \in {"journal", "settings"} : Navigate(v)
  \/ \E enabled \in BOOLEAN : TelemetryToggle(enabled)
  \/ HandleSave
  \/ ProcessQueue(TRUE)
  \/ DrainTimer

SpecTelemetrySave == InitPin /\ [][NextTelemetrySave]_vars

\* the drain of the telemetry queue while the interval timer keeps firing
\* and every request the drain waits for ends
NextTelemetryLive ==
  \/ CompleteOnboarding(FALSE, UserPin, 1)
  \/ Navigate("settings")
  \/ \E enabled \in BOOLEAN : TelemetryToggle(enabled)
  \/ ApiCall(sendDailyCompletionEvent)
  \/ \E success \in BOOLEAN : ProcessQueue(success)
  \/ DrainTimer

SpecTelemetryLive ==
  /\ InitPin
  /\ [][NextTelemetryLive]_vars
  /\ WF_vars(DrainTimer)
  /\ WF_vars(\E success \in BOOLEAN : ProcessQueue(success))

\* saves while the telemetry calls go wrong and sends fail
NextTelemetryFault ==
  \/ CompleteOnboarding(FALSE, UserPin, 1)
  \/ \E step \in ClockSteps : Tick(step, MaxTelemetryNow)
  \/ \E v \in {"journal", "settings"} : Navigate(v)
  \/ TelemetryToggle(TRUE)
  \/ \E fault \in TelemetryFaults : HandleSaveWith(fault)
  \/ \E success \in BOOLEAN : ProcessQueue(success)
  \/ DrainTimer

SpecTelemetryFault == InitPin /\ [][NextTelemetryFault]_vars

\* calls of initializeSeedPrompts that overlap each other, the onboarding
\* and the mounting of the views
NextSeed ==
  \/ CompleteOnboarding(FALSE, UserPin, 1)
  \/ \E step \in ClockSteps : Tick(step, MaxSeedNow)
  \/ Reload
  \/ \E v \in {"today", "settings"} : Navigate(v)
  \/ SeedStart
  \/ \E i \in 1..MaxCalls : SeedStep(i)

SpecSeed == InitPin /\ [][NextSeed]_vars

\* an export whose requests are served while a second tab saves entries
NextExport ==
  \/ CompleteOnboarding(FALSE, UserPin, 1)
  \/ \E step \in ClockSteps : Tick(step, MaxExportNow)
  \/ Navigate("settings")
  \/ OtherTabOpen
  \/ OtherTabHandleSave
  \/ ExportStart
  \/ ExportRead

SpecExport == InitPin /\ [][NextExport]_vars

\* the Today view mounted over summary rows found damaged in the store
NextRecover ==
  \/ CompleteOnboarding(FALSE, UserPin, 1)
  \/ \E v \in {"today", "journal"} : Navigate(v)
  \/ \E row \in DamagedRows : StoreHolds(row)

SpecRecover == InitPin /\ [][NextRecover]_vars

\* the streak reset with a store that may reject one of its writes
NextReset ==
  \/ CompleteOnboarding(FALSE, UserPin, 1)
  \/ \E step \in ClockSteps : Tick(step, MaxResetNow)
  \/ \E v \in {"today", "journal"} : Navigate(v)
  \/ HandleSave
  \/ \E fault \in ResetFaults : ResetStreakDataWith(fault)

SpecReset == InitPin /\ [][NextReset]_vars

\* the application started again after the page has gone away
NextStartup ==
  \/ \E salt \in Salts : CompleteOnboarding(TRUE, UserPin, salt)
  \/ Tick(1, MaxStartupNow)
  \/ PageDiscarded
  \/ Reload
  \/ \E v \in {"today", "settings"} : Navigate(v)
  \/ \E pin \in PinInputs : VerifyPin(pin)
  \/ TabHidden

SpecStartup == InitPin /\ [][NextStartup]_vars

\* two tabs saving the first entry of a day, request by request; the
\* requests of a save take milliseconds, so the clock, which steps by hours,
\* stands still while a save is in progress
NextSaveRace ==
  \/ CompleteOnboarding(FALSE, UserPin, 1)
  \/ /\ calls.save = <<IdleSave, IdleSave>>
     /\ \E step \in ClockSteps : Tick(step, MaxRaceNow)
  \/ \E v \in {"today", "journal"} : Navigate(v)
  \/ OtherTabOpen
  \/ \E t \in SaveTabs : SaveStart(t)
  \/ \E t \in SaveTabs : SaveStep(t)

SpecSaveRace == InitPin /\ [][NextSaveRace]_vars

====
